---- MODULE Spec2Model ----
(***************************************************************************)
(* Review ledger, transition validator, eligibility snapshots and form     *)
(* locks of the R&D tax credit agent (src/app), as a state machine.        *)
(*                                                                         *)
(* Each SQLite statement group that runs under one connection and one      *)
(* commit is one atomic step; a handler that opens several connections is  *)
(* a sequence of steps, so that concurrent requests interleave exactly     *)
(* where the code lets them.                                               *)
(***************************************************************************)
EXTENDS Integers, Sequences, FiniteSets, TLC

VARIABLES
    ledger,      \* project_reviews rows (reviews.db), in insertion (rowid) order
    mirror,      \* review_actions rows (agent.db), in insertion order
    traces,      \* trace files written by write_review_trace, in creation order
    now,         \* the wall clock read by datetime.utcnow()
    pc,          \* pc[p]: position of request p inside create_review_action
    req,         \* req[p]: the request being served by p
    loc,         \* loc[p]: local variables of the handler
    result,      \* result[p]: HTTP outcome of the last request served by p
    snapshots,   \* eligibility_snapshots rows, keyed by snapshot_id
    snapRet,     \* the last return of create_eligibility_snapshot
    form_locks,  \* form_locks rows as committed, in insertion order
    txn,         \* the open write transaction on agent.db, or NoTxn
    lpc,         \* lpc[p]: position of caller p inside generate / lock_form_version
    lreq,        \* lreq[p]: the generate request being served by p
    lres,        \* lres[p]: outcome of the last generate request served by p
    formDoc,     \* the last return of compute_form6765
    queue,       \* the last return of get_review_queue
    created,     \* the outcome of the last direct create_review call
    trace_files, \* the files of the trace directory: path, content, content as written
    traceRet,    \* the outcome of the last write_trace, verify or trace_freeze call
    histRet      \* the last return of get_project_history

reviewVars == <<ledger, mirror, traces, pc, req, loc, result>>
snapVars   == <<snapshots, snapRet>>
lockVars   == <<form_locks, txn, lpc, lreq, lres>>
traceVars  == <<trace_files, traceRet>>
callVars   == <<formDoc, queue, created, traceVars, histRet>>
vars == <<ledger, mirror, traces, now, pc, req, loc, result,
          snapshots, snapRet, form_locks, txn, lpc, lreq, lres,
          formDoc, queue, created, trace_files, traceRet, histRet>>

----------------------------------------------------------------------------
(* Bounds of the model *)

\* at most this many review submissions are admitted in one behaviour
MaxRecords == 2
\* the clock ticks at most this many times
MaxTime == 1
\* at most this many form_locks rows are inserted
MaxLocks == 3
\* create_eligibility_snapshot is called at most this many times
MaxSnapCalls == 2
\* project id lists passed to create_eligibility_snapshot have at most this length
MaxIds == 2

----------------------------------------------------------------------------
(* review_models.py *)

ReviewStatus ==
    {"RECOMMENDED_ELIGIBLE", "RECOMMENDED_NOT_ELIGIBLE", "MANUAL_REVIEW",
     "APPROVED", "REJECTED", "OVERRIDDEN"}

ReviewerRole ==
    {"ANALYST", "REVIEWER", "TAX_MANAGER", "DIRECTOR", "PARTNER", "ADMIN"}

\* Python's None for a status, a role or a key
None == "None"

ALLOWED_TRANSITIONS(current_status) ==
    CASE current_status = "RECOMMENDED_ELIGIBLE"     -> {"APPROVED", "REJECTED", "OVERRIDDEN"}
      [] current_status = "RECOMMENDED_NOT_ELIGIBLE" -> {"APPROVED", "REJECTED", "OVERRIDDEN"}
      [] current_status = "MANUAL_REVIEW"            -> {"APPROVED", "REJECTED", "OVERRIDDEN"}
      [] current_status = "APPROVED"                 -> {"OVERRIDDEN"}
      [] current_status = "REJECTED"                 -> {"OVERRIDDEN"}
      [] current_status = "OVERRIDDEN"               -> {}

\* ROLE_HIERARCHY.get(role, -1)
ROLE_HIERARCHY(role) ==
    CASE role = "ANALYST"     -> 0
      [] role = "REVIEWER"    -> 1
      [] role = "TAX_MANAGER" -> 1
      [] role = "DIRECTOR"    -> 2
      [] role = "PARTNER"     -> 2
      [] role = "ADMIN"       -> 3
      [] OTHER                -> -1

ApproveRejectRank == 1

OverrideRank == 2

can_approve_reject(role) == ROLE_HIERARCHY(role) >= ApproveRejectRank

can_override_any_reviewer(role) == ROLE_HIERARCHY(role) >= ApproveRejectRank

can_override(role) == ROLE_HIERARCHY(role) >= OverrideRank

\* validate_transition: "ok", or which check refused the transition
validate_transition_role_first(current_status, new_status, reviewer_role) ==
    LET cur == IF current_status = None \/ current_status = "UNREVIEWED"
               THEN "MANUAL_REVIEW" ELSE current_status
    IN  IF new_status \in {"APPROVED", "REJECTED"} /\ ~can_approve_reject(reviewer_role)
          THEN "role"
        ELSE IF new_status = "OVERRIDDEN" /\ ~can_override(reviewer_role)
          THEN "role"
        ELSE IF cur \notin ReviewStatus THEN "unknown_current"
        ELSE IF new_status \notin ALLOWED_TRANSITIONS(cur) THEN "edge"
        ELSE "ok"

validate_transition(current_status, new_status, reviewer_role) ==
    LET cur == IF current_status = None \/ current_status = "UNREVIEWED"
               THEN "MANUAL_REVIEW" ELSE current_status
    IN  IF cur \notin ReviewStatus THEN "unknown_current"
        ELSE IF new_status \notin ALLOWED_TRANSITIONS(cur) THEN "edge"
        ELSE IF new_status \in {"APPROVED", "REJECTED"} /\ ~can_approve_reject(reviewer_role)
          THEN "role"
        ELSE IF new_status = "OVERRIDDEN" /\ ~can_override(reviewer_role)
          THEN "role"
        ELSE "ok"

----------------------------------------------------------------------------
(* auth.py *)

\* USER_ROLES as deployed: role name -> API key.  "INTERN" is a configured
\* name that is no ReviewerRole.
ROLE_MAP ==
    [role_str \in {"ANALYST", "REVIEWER", "DIRECTOR", "INTERN"} |->
        CASE role_str = "ANALYST"  -> "key_analyst"
          [] role_str = "REVIEWER" -> "key_reviewer"
          [] role_str = "DIRECTOR" -> "key_director"
          [] role_str = "INTERN"   -> "key_intern"]

ApiKeys == {None, "key_unknown", "key_intern", "key_analyst", "key_reviewer", "key_director"}

get_role(api_key) ==
    IF api_key = None THEN None
    ELSE IF \E role_str \in DOMAIN ROLE_MAP : ROLE_MAP[role_str] = api_key
      THEN LET role_str == CHOOSE r \in DOMAIN ROLE_MAP : ROLE_MAP[r] = api_key
           IN  IF role_str \in ReviewerRole THEN role_str ELSE None
      ELSE None

get_role_from_api_key(api_key) == get_role(api_key)

----------------------------------------------------------------------------
(* storage.py: the ledger *)

\* a reason is kept by its length, the only thing the code reads of it
MinReasonLen == 20

\* source_confidence REAL of a row that is NULL; a value is a percentage
NoConfidence == -1

\* a project_reviews row.  reviewer_name, reviewer_role, reason and the other
\* source_* columns are stored and handed back but read by no operation; the
\* rows of the model carry the columns the code reads
NoRecord ==
    [review_id |-> 0, project_id |-> 0, status |-> None,
     timestamp |-> 0, source_confidence |-> NoConfidence, review_trace_path |-> 0]

RowsOf(rows, project_id) == {i \in DOMAIN rows : rows[i].project_id = project_id}

\* SELECT ... WHERE project_id=? ORDER BY timestamp DESC LIMIT 1, as SQLite runs it
\* over idx_project_timestamp: among equal timestamps the lowest rowid comes first
get_latest_review(rows, project_id) ==
    LET mine == RowsOf(rows, project_id)
    IN  IF mine = {} THEN NoRecord
        ELSE rows[CHOOSE i \in mine : \A j \in mine :
                    \/ rows[j].timestamp < rows[i].timestamp
                    \/ rows[j].timestamp = rows[i].timestamp /\ i <= j]

\* SELECT ... WHERE project_id=? ORDER BY timestamp ASC: the same index walked
\* backwards, so equal timestamps come out in descending rowid order
RECURSIVE HistoryFrom(_, _)
HistoryFrom(rows, idx) ==
    IF idx = {} THEN <<>>
    ELSE LET first == CHOOSE i \in idx : \A j \in idx :
                        \/ rows[i].timestamp < rows[j].timestamp
                        \/ rows[i].timestamp = rows[j].timestamp /\ i >= j
         IN  <<rows[first]>> \o HistoryFrom(rows, idx \ {first})

\* ORDER BY timestamp DESC in place of ASC
get_project_history_newest_first(rows, project_id) ==
    LET oldest_first == HistoryFrom(rows, RowsOf(rows, project_id))
    IN  [k \in DOMAIN oldest_first |-> oldest_first[Len(oldest_first) + 1 - k]]

get_project_history(rows, project_id) == HistoryFrom(rows, RowsOf(rows, project_id))

\* get_current_review_state(...).current_status from the latest row read
\* the status field of the latest record, whether there is a record or not
current_status_of_record(latest) == latest.status

current_status_of(latest) ==
    IF latest = NoRecord THEN "MANUAL_REVIEW" ELSE latest.status

CurrentStatus(project_id) == current_status_of(get_latest_review(ledger, project_id))

----------------------------------------------------------------------------
(* review_api.py: create_review_action, one step per store access *)

Procs == {1, 2}

NoReq == [project_id |-> 0, status |-> None, reviewer_role |-> None,
          reason_len |-> 0, api_key |-> None]

NoLoc == [old_status |-> None, source_confidence |-> NoConfidence,
          cur_status |-> None, timestamp |-> 0,
          review_id |-> 0, trace_path |-> 0, latest |-> NoRecord]

NoResult == [code |-> 0, latest |-> NoRecord, history |-> <<>>, current_status |-> None]

Failed(code) == [NoResult EXCEPT !.code = code]

\* requests admitted so far that have appended or may still append a record
Admitted == Len(ledger) + Cardinality({p \in Procs : pc[p] \in
                {"auth", "api_state", "val_state", "validate", "insert"}})

\* a request arrives: POST /reviews/{project_id}/action; cap bounds the
\* number of records the run may append
SubmitReviewWithin(cap, p, project_id, status, reviewer_role, reason_len, api_key) ==
    /\ pc[p] = "idle"
    /\ Admitted < cap
    /\ pc' = [pc EXCEPT ![p] = "auth"]
    /\ req' = [req EXCEPT ![p] = [project_id |-> project_id, status |-> status,
                                  reviewer_role |-> reviewer_role,
                                  reason_len |-> reason_len, api_key |-> api_key]]
    /\ loc' = [loc EXCEPT ![p] = NoLoc]
    /\ result' = [result EXCEPT ![p] = NoResult]
    /\ UNCHANGED <<ledger, mirror, traces, now>>
    /\ UNCHANGED <<snapVars, lockVars, callVars>>

SubmitReview(p, project_id, status, reviewer_role, reason_len, api_key) ==
    SubmitReviewWithin(MaxRecords, p, project_id, status, reviewer_role, reason_len, api_key)

\* GET /reviews/{project_id}: return storage.get_current_review_state(project_id)
GetReviewState(p, project_id) ==
    /\ pc[p] = "idle"
    /\ pc' = [pc EXCEPT ![p] = "ret_latest"]
    /\ req' = [req EXCEPT ![p] = [NoReq EXCEPT !.project_id = project_id]]
    /\ loc' = [loc EXCEPT ![p] = NoLoc]
    /\ result' = [result EXCEPT ![p] = NoResult]
    /\ UNCHANGED <<ledger, mirror, traces, now>>
    /\ UNCHANGED <<snapVars, lockVars, callVars>>

\* the early checks of create_review_action: 401, 403, or go on
early_check_no_override_gate(api_key, status, reviewer_role) ==
    IF get_role_from_api_key(api_key) = None THEN 401
    ELSE IF status \in {"APPROVED", "REJECTED"} /\ ~can_approve_reject(reviewer_role) THEN 403
    ELSE 0

\* the permission checks of lines 92-108 placed before the role lookup
early_check_permission_first(api_key, status, reviewer_role) ==
    IF status \in {"APPROVED", "REJECTED"} /\ ~can_approve_reject(reviewer_role) THEN 403
    ELSE IF status = "OVERRIDDEN" /\ ~can_override(reviewer_role) THEN 403
    ELSE IF get_role_from_api_key(api_key) = None THEN 401
    ELSE 0

early_check(api_key, status, reviewer_role) ==
    IF get_role_from_api_key(api_key) = None THEN 401
    ELSE IF status \in {"APPROVED", "REJECTED"} /\ ~can_approve_reject(reviewer_role) THEN 403
    ELSE IF status = "OVERRIDDEN" /\ ~can_override(reviewer_role) THEN 403
    ELSE 0

Authorize(p) ==
    /\ pc[p] = "auth"
    /\ LET code == early_check(req[p].api_key, req[p].status, req[p].reviewer_role)
       IN  IF code # 0
             THEN /\ pc' = [pc EXCEPT ![p] = "done"]
                  /\ result' = [result EXCEPT ![p] = Failed(code)]
             ELSE /\ pc' = [pc EXCEPT ![p] = "api_state"]
                  /\ UNCHANGED result
    /\ UNCHANGED <<ledger, mirror, traces, now, req, loc>>
    /\ UNCHANGED <<snapVars, lockVars, callVars>>

\* current_state = storage.get_current_review_state(project_id): its
\* current_status goes into the trace and the source_* fields of its
\* last_review into the new record (lines 121-123)
ApiGetState(p) ==
    /\ pc[p] = "api_state"
    /\ loc' = [loc EXCEPT ![p].old_status =
                  current_status_of(get_latest_review(ledger, req[p].project_id)),
                           ![p].source_confidence =
                  get_latest_review(ledger, req[p].project_id).source_confidence]
    /\ pc' = [pc EXCEPT ![p] = "val_state"]
    /\ UNCHANGED <<ledger, mirror, traces, now, req, result>>
    /\ UNCHANGED <<snapVars, lockVars, callVars>>

\* validate_and_create_review, line 328: the state the validator will see
ValGetState(p) ==
    /\ pc[p] = "val_state"
    /\ loc' = [loc EXCEPT ![p].cur_status =
                  current_status_of(get_latest_review(ledger, req[p].project_id))]
    /\ pc' = [pc EXCEPT ![p] = "validate"]
    /\ UNCHANGED <<ledger, mirror, traces, now, req, result>>
    /\ UNCHANGED <<snapVars, lockVars, callVars>>

\* validate_and_create_review without lines 341-343
validation_no_reason_floor(cur_status, new_status, reviewer_role, reason_len) ==
    validate_transition(cur_status, new_status, reviewer_role)

\* validate_and_create_review, lines 331-343: table and role, then reason length
validation(cur_status, new_status, reviewer_role, reason_len) ==
    LET v == validate_transition(cur_status, new_status, reviewer_role)
    IN  IF v # "ok" THEN v
        ELSE IF new_status \in {"REJECTED", "OVERRIDDEN"} /\ reason_len < MinReasonLen
          THEN "reason"
        ELSE "ok"

\* lines 331-359: validate, then build the record with timestamp=utcnow()
Validate(p) ==
    /\ pc[p] = "validate"
    /\ LET v == validation(loc[p].cur_status, req[p].status,
                           req[p].reviewer_role, req[p].reason_len)
       IN  IF v # "ok"
             THEN /\ pc' = [pc EXCEPT ![p] = "done"]
                  /\ result' = [result EXCEPT ![p] = Failed(400)]
                  /\ UNCHANGED loc
             ELSE /\ pc' = [pc EXCEPT ![p] = "insert"]
                  /\ loc' = [loc EXCEPT ![p].timestamp = now]
                  /\ UNCHANGED result
    /\ UNCHANGED <<ledger, mirror, traces, now, req>>
    /\ UNCHANGED <<snapVars, lockVars, callVars>>

review_id_exists(rows, review_id) == \E i \in DOMAIN rows : rows[i].review_id = review_id

\* INSERT OR REPLACE in place of INSERT
create_review_or_replace(rows, record) ==
    Append(SelectSeq(rows, LAMBDA r : r.review_id # record.review_id), record)

\* create_review: INSERT INTO project_reviews; review_id is the PRIMARY KEY, so
\* the INSERT of an id that is stored raises sqlite3.IntegrityError and the
\* table stays as it is.  create_review_action passes a fresh uuid4
create_review(rows, record) ==
    IF review_id_exists(rows, record.review_id) THEN rows ELSE Append(rows, record)

Insert(p) ==
    /\ pc[p] = "insert"
    /\ LET record == [review_id |-> Len(ledger) + 1,
                      project_id |-> req[p].project_id,
                      status |-> req[p].status,
                      timestamp |-> loc[p].timestamp,
                      source_confidence |-> loc[p].source_confidence,
                      review_trace_path |-> 0]
       IN  /\ ledger' = create_review(ledger, record)
           /\ loc' = [loc EXCEPT ![p].review_id = record.review_id]
    /\ pc' = [pc EXCEPT ![p] = "trace"]
    /\ UNCHANGED <<mirror, traces, now, req, result>>
    /\ UNCHANGED <<snapVars, lockVars, callVars>>

\* trace_logger.write_review_trace succeeds: a new trace file
WriteTrace(p) ==
    /\ pc[p] = "trace"
    /\ traces' = Append(traces, [project_id |-> req[p].project_id,
                                 review_id |-> loc[p].review_id,
                                 old_status |-> loc[p].old_status,
                                 new_status |-> req[p].status])
    /\ loc' = [loc EXCEPT ![p].trace_path = Len(traces) + 1]
    /\ pc' = [pc EXCEPT ![p] = "backfill"]
    /\ UNCHANGED <<ledger, mirror, now, req, result>>
    /\ UNCHANGED <<snapVars, lockVars, callVars>>

\* write_review_trace raises (collision after 5 attempts, I/O error): the
\* exception leaves create_review_action as a 500
WriteTraceFails(p) ==
    /\ pc[p] = "trace"
    /\ pc' = [pc EXCEPT ![p] = "done"]
    /\ result' = [result EXCEPT ![p] = Failed(500)]
    /\ UNCHANGED <<ledger, mirror, traces, now, req, loc>>
    /\ UNCHANGED <<snapVars, lockVars, callVars>>

\* the UPDATE without its WHERE clause
update_review_trace_every_row(rows, review_id, trace_path) ==
    [i \in DOMAIN rows |-> [rows[i] EXCEPT !.review_trace_path = trace_path]]

\* UPDATE project_reviews SET review_trace_path=? WHERE review_id=?
update_review_trace(rows, review_id, trace_path) ==
    [i \in DOMAIN rows |->
        IF rows[i].review_id = review_id
        THEN [rows[i] EXCEPT !.review_trace_path = trace_path]
        ELSE rows[i]]

Backfill(p) ==
    /\ pc[p] = "backfill"
    /\ ledger' = update_review_trace(ledger, loc[p].review_id, loc[p].trace_path)
    /\ pc' = [pc EXCEPT ![p] = "mirror"]
    /\ UNCHANGED <<mirror, traces, now, req, loc, result>>
    /\ UNCHANGED <<snapVars, lockVars, callVars>>

\* form_lock_store.record_review_action: INSERT OR REPLACE INTO review_actions
record_review_action(rows, row) ==
    LET kept == SelectSeq(rows, LAMBDA r : r.review_id # row.review_id)
    IN  Append(kept, row)

Mirror(p) ==
    /\ pc[p] = "mirror"
    /\ mirror' = record_review_action(mirror,
                    [review_id |-> loc[p].review_id,
                     project_id |-> req[p].project_id,
                     status |-> req[p].status,
                     created_at_utc |-> loc[p].timestamp,
                     review_trace_path |-> loc[p].trace_path])
    /\ pc' = [pc EXCEPT ![p] = "ret_latest"]
    /\ UNCHANGED <<ledger, traces, now, req, loc, result>>
    /\ UNCHANGED <<snapVars, lockVars, callVars>>

\* record_review_action raises and nothing catches it
MirrorFailsUnhandled(p) ==
    /\ pc[p] = "mirror"
    /\ pc' = [pc EXCEPT ![p] = "done"]
    /\ result' = [result EXCEPT ![p] = Failed(500)]
    /\ UNCHANGED <<ledger, mirror, traces, now, req, loc>>
    /\ UNCHANGED <<snapVars, lockVars, callVars>>

\* record_review_action raises: logged and swallowed (lines 157-159)
MirrorFails(p) ==
    /\ pc[p] = "mirror"
    /\ pc' = [pc EXCEPT ![p] = "ret_latest"]
    /\ UNCHANGED <<ledger, mirror, traces, now, req, loc, result>>
    /\ UNCHANGED <<snapVars, lockVars, callVars>>

\* return storage.get_current_review_state(project_id): first read
RetLatest(p) ==
    /\ pc[p] = "ret_latest"
    /\ loc' = [loc EXCEPT ![p].latest = get_latest_review(ledger, req[p].project_id)]
    /\ pc' = [pc EXCEPT ![p] = "ret_history"]
    /\ UNCHANGED <<ledger, mirror, traces, now, req, result>>
    /\ UNCHANGED <<snapVars, lockVars, callVars>>

\* second read, and the ReviewState handed back with status 200
RetHistory(p) ==
    /\ pc[p] = "ret_history"
    /\ result' = [result EXCEPT ![p] =
                    [code |-> 200,
                     latest |-> loc[p].latest,
                     history |-> IF loc[p].latest = NoRecord THEN <<>>
                                 ELSE get_project_history(ledger, req[p].project_id),
                     current_status |-> current_status_of(loc[p].latest)]]
    /\ pc' = [pc EXCEPT ![p] = "done"]
    /\ UNCHANGED <<ledger, mirror, traces, now, req, loc>>
    /\ UNCHANGED <<snapVars, lockVars, callVars>>

\* the response has been sent; the worker is free for the next request
Respond(p) ==
    /\ pc[p] = "done"
    /\ pc' = [pc EXCEPT ![p] = "idle"]
    /\ req' = [req EXCEPT ![p] = NoReq]
    /\ loc' = [loc EXCEPT ![p] = NoLoc]
    /\ result' = [result EXCEPT ![p] = NoResult]
    /\ UNCHANGED <<ledger, mirror, traces, now>>
    /\ UNCHANGED <<snapVars, lockVars, callVars>>

\* time passes
Tick ==
    /\ now < MaxTime
    /\ now' = now + 1
    /\ UNCHANGED <<ledger, mirror, traces, pc, req, loc, result>>
    /\ UNCHANGED <<snapVars, lockVars, callVars>>

----------------------------------------------------------------------------
(* form_lock_store.py: eligibility snapshots *)

\* project ids, ordered as Python orders the strings "p1" < "p2"
Projects == {1, 2}

TaxYears == {2024, 2025}

Users == {"alice", "bob"}

RECURSIVE SortedSeqOf(_)
SortedSeqOf(S) ==
    IF S = {} THEN <<>>
    ELSE LET least == CHOOSE x \in S : \A y \in S : x <= y
         IN  <<least>> \o SortedSeqOf(S \ {least})

SetOf(seq) == {seq[i] : i \in DOMAIN seq}

\* list(dict.fromkeys(seq)): duplicates dropped, first occurrences kept in order
RECURSIVE sorted_set_unsorted(_)
sorted_set_unsorted(seq) ==
    IF seq = <<>> THEN <<>>
    ELSE LET rest == sorted_set_unsorted(SubSeq(seq, 1, Len(seq) - 1))
             last == seq[Len(seq)]
         IN  IF last \in SetOf(rest) THEN rest ELSE Append(rest, last)

\* sorted(set(seq))
sorted_set(seq) == SortedSeqOf(SetOf(seq))

\* json.dumps of a list of ids, as a number: an order-sensitive, injective code
RECURSIVE ListCode(_)
ListCode(seq) ==
    IF seq = <<>> THEN 0
    ELSE seq[1] + (Cardinality(Projects) + 1) * ListCode(Tail(seq))

\* _sha256({"tax_year": ..., "approved_project_ids": [...]}): a digest that is
\* a function of the serialized payload and differs when the payload differs
sha256_of_payload(tax_year, approved_sorted) ==
    [tax_year |-> tax_year, ids |-> ListCode(approved_sorted)]

NoSha == [tax_year |-> 0, ids |-> 0]

\* a snapshot id: f"snap_{tax_year}_{sha[:12]}", or the one the caller passes
NoSnapshotId == [tax_year |-> 0, prefix |-> NoSha, custom |-> FALSE]

CustomSnapshotId == [tax_year |-> 0, prefix |-> NoSha, custom |-> TRUE]

derived_snapshot_id(tax_year, sha) == [tax_year |-> tax_year, prefix |-> sha, custom |-> FALSE]

\* SELECT status FROM review_actions WHERE project_id=? ORDER BY created_at_utc
\* DESC LIMIT 1: a stable sort of the project's rows, lowest rowid first on ties
get_latest_review_status(rows, project_id) ==
    LET mine == RowsOf(rows, project_id)
    IN  IF mine = {} THEN None
        ELSE rows[CHOOSE i \in mine : \A j \in mine :
                    \/ rows[j].created_at_utc < rows[i].created_at_utc
                    \/ rows[j].created_at_utc = rows[i].created_at_utc /\ i <= j].status

list_approved_projects(rows, project_ids) ==
    SelectSeq(project_ids, LAMBDA pid : get_latest_review_status(rows, pid) = "APPROVED")

\* the ids kept, before they are deduplicated and sorted (lines 156-160);
\* NotGiven stands for the argument left out
NotGiven == <<0>>

\* the explicit ids filtered by their latest status like the candidates
kept_ids_approved_only(rows, project_ids, approved_project_ids) ==
    list_approved_projects(rows, IF approved_project_ids # NotGiven
                                 THEN approved_project_ids ELSE project_ids)

kept_ids(rows, project_ids, approved_project_ids) ==
    IF approved_project_ids # NotGiven THEN approved_project_ids
    ELSE list_approved_projects(rows, project_ids)

\* what the last call returned, with the tax_year it was given, whether it
\* derived the snapshot id itself, and whether approved_project_ids was
\* passed and with which ids in it
NoSnapRet == [snapshot_id |-> NoSnapshotId, snapshot_sha256 |-> NoSha,
              approved_project_ids |-> <<>>, tax_year |-> 0, derived |-> FALSE,
              explicit |-> FALSE, given |-> {}, calls |-> 0]

\* INSERT OR REPLACE INTO eligibility_snapshots: snapshot_id is the primary key
insert_or_replace_snapshot(rows, row) ==
    {r \in rows : r.snapshot_id # row.snapshot_id} \cup {row}

create_eligibility_snapshot(tax_year, project_ids, created_by, snapshot_id, approved_project_ids) ==
    LET kept == kept_ids(mirror, project_ids, approved_project_ids)
        approved_sorted == sorted_set(kept)
        sha == sha256_of_payload(tax_year, approved_sorted)
        sid == IF snapshot_id # NoSnapshotId THEN snapshot_id
               ELSE derived_snapshot_id(tax_year, sha)
        row == [snapshot_id |-> sid, tax_year |-> tax_year, snapshot_sha256 |-> sha,
                approved_projects_json |-> approved_sorted,
                created_at_utc |-> now, created_by |-> created_by]
    IN  /\ snapRet.calls < MaxSnapCalls
        /\ snapshots' = insert_or_replace_snapshot(snapshots, row)
        /\ snapRet' = [snapshot_id |-> sid, snapshot_sha256 |-> sha,
                       approved_project_ids |-> approved_sorted,
                       tax_year |-> tax_year,
                       derived |-> (snapshot_id = NoSnapshotId),
                       explicit |-> (approved_project_ids # NotGiven),
                       given |-> IF approved_project_ids = NotGiven THEN {}
                                 ELSE SetOf(approved_project_ids),
                       calls |-> snapRet.calls + 1]
        /\ UNCHANGED <<ledger, mirror, traces, now, pc, req, loc, result>>
        /\ UNCHANGED <<lockVars, callVars>>

\* lists of project ids of length at most n
IdLists(n) == UNION {[1..k -> Projects] : k \in 0..n}

\* a call that passes the approved ids, with the snapshot id derived or chosen
FreezeWithId ==
    \E tax_year \in TaxYears, created_by \in Users,
       snapshot_id \in {NoSnapshotId, CustomSnapshotId},
       approved_project_ids \in IdLists(MaxIds) :
        create_eligibility_snapshot(tax_year, <<>>, created_by, snapshot_id,
                                    approved_project_ids)

\* a call that leaves the snapshot id to be derived: the ids to keep are looked
\* up for the candidates, or they are passed and the candidates are not read
\* (line 156)
FreezeCohort ==
    \E tax_year \in TaxYears, created_by \in Users :
        \/ \E project_ids \in IdLists(MaxIds) :
              create_eligibility_snapshot(tax_year, project_ids, created_by, NoSnapshotId,
                                          NotGiven)
        \/ \E project_ids \in {<<>>, <<2, 1>>}, approved_project_ids \in IdLists(MaxIds) :
              create_eligibility_snapshot(tax_year, project_ids, created_by, NoSnapshotId,
                                          approved_project_ids)

\* the call that freezes the approved projects of a cohort: no snapshot_id and
\* no approved_project_ids are passed
FreezeApproved ==
    \E project_ids \in IdLists(MaxIds) :
        create_eligibility_snapshot(2024, project_ids, "alice", NoSnapshotId, NotGiven)

----------------------------------------------------------------------------
(* form_lock_store.py: form locks *)

FormVersions == {"v1", "v2"}

LockReasons == {"form generated"}

NoLock == [lock_id |-> 0, tax_year |-> 0, active_form_version_id |-> None,
           locked_at_utc |-> 0, locked_by |-> 0, lock_reason |-> None,
           is_active |-> FALSE]

\* SELECT ... WHERE tax_year=? AND is_active=1 ORDER BY locked_at_utc DESC LIMIT 1
get_active_form_lock(rows, tax_year) ==
    LET mine == {i \in DOMAIN rows : rows[i].tax_year = tax_year /\ rows[i].is_active}
    IN  IF mine = {} THEN NoLock
        ELSE rows[CHOOSE i \in mine : \A j \in mine :
                    \/ rows[j].locked_at_utc < rows[i].locked_at_utc
                    \/ rows[j].locked_at_utc = rows[i].locked_at_utc /\ i <= j]

\* UPDATE form_locks SET is_active=0 WHERE tax_year=? AND is_active=1
deactivate_nothing(rows, tax_year) == rows

deactivate_every_year(rows, tax_year) ==
    [i \in DOMAIN rows |-> [rows[i] EXCEPT !.is_active = FALSE]]

deactivate_and_drop(rows, tax_year) ==
    SelectSeq(rows, LAMBDA r : ~(r.tax_year = tax_year /\ r.is_active))

\* the UPDATE with WHERE tax_year>=? in place of tax_year=?
deactivate_later_years(rows, tax_year) ==
    [i \in DOMAIN rows |->
        IF rows[i].tax_year >= tax_year /\ rows[i].is_active
        THEN [rows[i] EXCEPT !.is_active = FALSE]
        ELSE rows[i]]

deactivate(rows, tax_year) ==
    [i \in DOMAIN rows |->
        IF rows[i].tax_year = tax_year /\ rows[i].is_active
        THEN [rows[i] EXCEPT !.is_active = FALSE]
        ELSE rows[i]]

\* INSERT INTO form_locks (...) VALUES (..., 1); lock_id holds a fresh uuid4
insert_lock(rows, tax_year, form_version_id, locked_at_utc, locked_by, lock_reason) ==
    Append(rows, [lock_id |-> Len(rows) + 1, tax_year |-> tax_year,
                  active_form_version_id |-> form_version_id,
                  locked_at_utc |-> locked_at_utc, locked_by |-> locked_by,
                  lock_reason |-> lock_reason, is_active |-> TRUE])

NoTxn == [owner |-> 0, rows |-> <<>>]

NoLockReq == [tax_year |-> 0, form_version_id |-> None, lock_reason |-> None,
              observed |-> NoLock]

\* the override a caller must present to replace an active lock
MinOverrideReasonLen == 30

override_ok(override_reason_len, actor_role) ==
    override_reason_len >= MinOverrideReasonLen /\ can_override(actor_role)

\* generate: read the active lock of the cohort and refuse to replace it
\* without an override; otherwise go on to lock_form_version
Generate(p, tax_year, form_version_id, lock_reason, override_reason_len, actor_role) ==
    /\ lpc[p] \in {"idle", "done"}
    /\ Len(form_locks) + Cardinality({q \in Procs : lpc[q] \in {"update", "insert", "commit"}})
          < MaxLocks
    /\ LET active == get_active_form_lock(form_locks, tax_year)
       IN  IF active # NoLock /\ ~override_ok(override_reason_len, actor_role)
             THEN /\ lpc' = [lpc EXCEPT ![p] = "done"]
                  /\ lres' = [lres EXCEPT ![p] = "LockConflictError"]
                  /\ lreq' = [lreq EXCEPT ![p] = NoLockReq]
             ELSE /\ lpc' = [lpc EXCEPT ![p] = "update"]
                  /\ lres' = [lres EXCEPT ![p] = None]
                  /\ lreq' = [lreq EXCEPT ![p] =
                        [tax_year |-> tax_year, form_version_id |-> form_version_id,
                         lock_reason |-> lock_reason, observed |-> active]]
    /\ UNCHANGED <<form_locks, txn, now>>
    /\ UNCHANGED <<reviewVars, snapVars, callVars>>

\* lock_form_version, line 222: the UPDATE opens the write transaction; a
\* second writer waits for the database lock
LockUpdate(p) ==
    /\ lpc[p] = "update"
    /\ txn = NoTxn
    /\ txn' = [owner |-> p, rows |-> deactivate(form_locks, lreq[p].tax_year)]
    /\ lpc' = [lpc EXCEPT ![p] = "insert"]
    /\ UNCHANGED <<form_locks, lreq, lres, now>>
    /\ UNCHANGED <<reviewVars, snapVars, callVars>>

\* lines 223-231: the INSERT, inside the same transaction, locked_at_utc=_utc_now()
LockInsert(p) ==
    /\ lpc[p] = "insert"
    /\ txn.owner = p
    /\ txn' = [txn EXCEPT !.rows = insert_lock(txn.rows, lreq[p].tax_year,
                                    lreq[p].form_version_id, now, p, lreq[p].lock_reason)]
    /\ lpc' = [lpc EXCEPT ![p] = "commit"]
    /\ UNCHANGED <<form_locks, lreq, lres, now>>
    /\ UNCHANGED <<reviewVars, snapVars, callVars>>

\* line 232: con.commit() publishes both statements at once
LockCommit(p) ==
    /\ lpc[p] = "commit"
    /\ txn.owner = p
    /\ form_locks' = txn.rows
    /\ txn' = NoTxn
    /\ lpc' = [lpc EXCEPT ![p] = "done"]
    /\ lres' = [lres EXCEPT ![p] = "locked"]
    /\ lreq' = [lreq EXCEPT ![p] = NoLockReq]
    /\ UNCHANGED now
    /\ UNCHANGED <<reviewVars, snapVars, callVars>>

----------------------------------------------------------------------------
(* form6765_calc.py: the form computation *)

\* compute_form6765 is called at most this many times
MaxFormCalls == 2

\* records appended by one client working on one project
MaxSeqRecords == 3

\* Decimal.quantize(Decimal("0.01")) of the amount n/d cents, n >= 0, under the
\* default context of the decimal module, which rounds half to even
_money(n, d) ==
    LET q == n \div d
        r == n % d
    IN  IF 2 * r < d THEN q
        ELSE IF 2 * r > d THEN q + 1
        ELSE IF q % 2 = 0 THEN q ELSE q + 1

Max(a, b) == IF a >= b THEN a ELSE b

\* Form6765Header: the tax year; the name and number on the return are fixed
Headers == [tax_year : TaxYears]

\* an Optional[Decimal] field that is None
NoAmount == -1

\* contract_applicable_pct, in percent: the default of 0.65
ContractPct == 65

\* Form6765Inputs, amounts in cents: the fields given here vary, every other
\* field keeps its default
FormInputs ==
    [qre_wages : {0, 10000000},
     qre_supplies : {0},
     qre_computers : {0},
     qre_contract_research_gross : {0},
     prior_3_year_qre_total : {NoAmount, 6000001},
     credit_method : {"ASC", "REGULAR"},
     fixed_base_percentage : {NoAmount, 3},
     avg_annual_gross_receipts : {NoAmount, 50000000}]

RulesetVersions == {"rules-1", "rules-2"}

\* EligibilitySnapshot arguments: snapshots of 2024 as create_eligibility_snapshot
\* returns them
FormSnapshots ==
    {[snapshot_id |-> derived_snapshot_id(2024, sha256_of_payload(2024, ids)),
      approved_project_ids |-> ids,
      snapshot_sha256 |-> sha256_of_payload(2024, ids)] : ids \in {<<1>>, <<1, 2>>}}

\* Form6765Inputs for the arithmetic of Section B: every QRE amount, with a
\* prior-year total that is absent, zero, positive, and larger than six times
\* the current QRE; wages of 0.75 put 6% of line_28 on an exact half cent
LineInputs ==
    [qre_wages : {0, 75, 10000000},
     qre_supplies : {0, 2500050},
     qre_computers : {0, 1},
     qre_contract_research_gross : {0, 333},
     prior_3_year_qre_total : {NoAmount, 0, 6000001, 600000000},
     credit_method : {"ASC", "REGULAR"},
     fixed_base_percentage : {NoAmount, 3},
     avg_annual_gross_receipts : {NoAmount, 50000000}]

\* lines 152-172 with a 6% rate in both branches
form_lines_flat_rate(inputs) ==
    LET contracts == _money(inputs.qre_contract_research_gross * ContractPct, 100)
        line_28 == inputs.qre_wages + inputs.qre_supplies + inputs.qre_computers + contracts
        prior_total == IF inputs.prior_3_year_qre_total = NoAmount THEN 0
                       ELSE inputs.prior_3_year_qre_total
        skip == inputs.prior_3_year_qre_total = NoAmount \/ prior_total <= 0
        line_30 == IF skip THEN 0 ELSE _money(prior_total, 6)
        line_31 == IF skip THEN 0 ELSE Max(0, line_28 - line_30)
    IN  [line_24 |-> inputs.qre_wages, line_25 |-> inputs.qre_supplies,
         line_26 |-> inputs.qre_computers, line_27 |-> contracts, line_28 |-> line_28,
         line_29_prior_3_year_qre_total |-> prior_total,
         line_30 |-> line_30, line_31 |-> line_31,
         line_32 |-> IF skip THEN _money(line_28 * 6, 100) ELSE _money(line_31 * 6, 100)]

\* Section B of the form, lines 24-32 (lines 76-81 and 152-172 of the source)
form_lines(inputs) ==
    LET contracts == _money(inputs.qre_contract_research_gross * ContractPct, 100)
        line_24 == _money(inputs.qre_wages, 1)
        line_25 == _money(inputs.qre_supplies, 1)
        line_26 == _money(inputs.qre_computers, 1)
        line_27 == _money(contracts, 1)
        line_28 == _money(line_24 + line_25 + line_26 + line_27, 1)
        prior_total == IF inputs.prior_3_year_qre_total = NoAmount THEN 0
                       ELSE inputs.prior_3_year_qre_total
        skip == inputs.prior_3_year_qre_total = NoAmount \/ prior_total <= 0
        line_30 == IF skip THEN 0 ELSE _money(prior_total, 6)
        line_31 == IF skip THEN 0 ELSE _money(Max(0, line_28 - line_30), 1)
        line_32 == IF skip THEN _money(line_28 * 6, 100) ELSE _money(line_31 * 14, 100)
    IN  [line_24 |-> line_24, line_25 |-> line_25, line_26 |-> line_26,
         line_27 |-> line_27, line_28 |-> line_28,
         line_29_prior_3_year_qre_total |-> _money(prior_total, 1),
         line_30 |-> line_30, line_31 |-> line_31, line_32 |-> line_32]

\* the check of lines 209-212 made for either credit method
missing_regular_inputs_any_method(inputs) ==
    \/ inputs.fixed_base_percentage = NoAmount
    \/ inputs.avg_annual_gross_receipts = NoAmount

\* lines 209-212: REGULAR needs both regular-credit inputs
missing_regular_inputs(inputs) ==
    /\ inputs.credit_method = "REGULAR"
    /\ \/ inputs.fixed_base_percentage = NoAmount
       \/ inputs.avg_annual_gross_receipts = NoAmount

\* Form6765Provenance, lines 214-224
provenance(snapshot, ruleset_version, computed_at) ==
    [eligibility_snapshot_id |-> snapshot.snapshot_id,
     eligibility_snapshot_sha256 |-> snapshot.snapshot_sha256,
     ruleset_version |-> ruleset_version,
     computed_at_utc |-> computed_at]

\* lines 227-232: the payload that is hashed
base_payload(header, inputs, snapshot, ruleset_version, computed_at) ==
    [header |-> header, inputs |-> inputs, lines |-> form_lines(inputs),
     provenance |-> provenance(snapshot, ruleset_version, computed_at)]

\* _sha256_dict: a digest that is a function of the serialized payload and
\* differs when the payload differs
_sha256_dict(payload) == payload

\* f"f6765_{header.tax_year}_{form_sha[:12]}"
form_version_id_of(header, form_sha) == [tax_year |-> header.tax_year, prefix |-> form_sha]

\* no digest, no version id and no lines: the call has returned no document
NoFormSha == [absent |-> TRUE]

NoFormVersionId == [tax_year |-> 0, prefix |-> NoFormSha]

NoLines == [absent |-> TRUE]

\* what the last call returned, with the arguments it was given
NoDoc == [error |-> None, calls |-> 0, header |-> None, inputs |-> None,
          snapshot |-> None, ruleset_version |-> None, computed_at_utc |-> 0,
          lines |-> NoLines,
          form_version_id |-> NoFormVersionId, form_version_sha256 |-> NoFormSha]

compute_form6765(header, inputs, snapshot, ruleset_version) ==
    LET form_sha == _sha256_dict(base_payload(header, inputs, snapshot, ruleset_version, now))
        args == [NoDoc EXCEPT !.calls = formDoc.calls + 1, !.header = header,
                              !.inputs = inputs, !.snapshot = snapshot,
                              !.ruleset_version = ruleset_version,
                              !.computed_at_utc = now]
    IN  /\ formDoc.calls < MaxFormCalls
        /\ formDoc' = IF missing_regular_inputs(inputs)
                        THEN [args EXCEPT !.error = "ValueError"]
                        ELSE [args EXCEPT !.lines = form_lines(inputs),
                                          !.form_version_id = form_version_id_of(header, form_sha),
                                          !.form_version_sha256 = form_sha]
        /\ UNCHANGED <<reviewVars, snapVars, lockVars, now, queue, created, traceVars, histRet>>

\* the same call with the inputs of the Section B arithmetic
ComputeLines ==
    \E inputs \in LineInputs :
        compute_form6765([tax_year |-> 2024], inputs,
                         CHOOSE snapshot \in FormSnapshots : TRUE, "rules-1")

ComputeForm ==
    \E header \in Headers, inputs \in FormInputs, snapshot \in FormSnapshots,
       ruleset_version \in RulesetVersions :
        compute_form6765(header, inputs, snapshot, ruleset_version)

----------------------------------------------------------------------------
(* storage.py: calls made on the store directly *)

\* the outcome of the last create_review call made on the store
NoCreated == [review_id |-> 0, error |-> None]

\* storage.create_review(record) with a record of the caller's making
CreateReview(record) ==
    /\ review_id_exists(ledger, record.review_id) \/ Len(ledger) < MaxRecords
    /\ ledger' = create_review(ledger, record)
    /\ created' = [review_id |-> record.review_id,
                   error |-> IF review_id_exists(ledger, record.review_id)
                             THEN "IntegrityError" ELSE None]
    /\ UNCHANGED <<mirror, traces, now, pc, req, loc, result>>
    /\ UNCHANGED <<snapVars, lockVars, formDoc, queue, traceVars, histRet>>

\* storage.update_review_trace(review_id, trace_path)
UpdateReviewTrace(review_id, trace_path) ==
    /\ ledger' = update_review_trace(ledger, review_id, trace_path)
    /\ UNCHANGED <<mirror, traces, now, pc, req, loc, result>>
    /\ UNCHANGED <<snapVars, lockVars, callVars>>

\* no get_project_history call has returned yet
NoHistory == [project_id |-> 0, rows |-> <<>>, at |-> 0]

\* storage.get_project_history(project_id); at is the number of rows the table
\* held when it was read
GetProjectHistory(project_id) ==
    /\ histRet' = [project_id |-> project_id,
                   rows |-> get_project_history(ledger, project_id),
                   at |-> Len(ledger)]
    /\ UNCHANGED <<reviewVars, snapVars, lockVars, now, formDoc, queue, created, traceVars>>

\* the columns a SELECT * and the SELECT of get_review_queue hand to _row_to_record
AllColumns ==
    {"review_id", "project_id", "status", "reviewer_name", "reviewer_role", "reason",
     "timestamp", "source_decision", "source_confidence", "source_trace_path",
     "review_trace_path", "created_at"}

QueueColumns ==
    {"project_id", "status", "reviewer_name", "reviewer_role", "reason", "timestamp",
     "source_decision", "source_confidence", "source_trace_path", "review_trace_path"}

\* _row_to_record reads these keys of the row; sqlite3.Row raises IndexError
\* for a key that is not a column of the result
_row_to_record_raises(columns) ==
    ~({"review_id", "project_id", "status", "reviewer_name", "reviewer_role", "reason",
       "timestamp", "source_decision", "source_confidence", "source_trace_path",
       "review_trace_path"} \subseteq columns)

\* SQLite's order of two source_confidence values under ASC: NULL is smaller
\* than every value
ConfidenceBefore(a, b) == a # b /\ (a = NoConfidence \/ (b # NoConfidence /\ a < b))

\* ORDER BY source_confidence ASC, timestamp DESC over the rows chosen by
\* WHERE status IN (...); rows equal in both come in rowid order
RECURSIVE QueueOrder(_, _)
QueueOrder(rows, idx) ==
    IF idx = {} THEN <<>>
    ELSE LET first == CHOOSE i \in idx : \A j \in idx :
                        \/ ConfidenceBefore(rows[i].source_confidence, rows[j].source_confidence)
                        \/ /\ rows[i].source_confidence = rows[j].source_confidence
                           /\ \/ rows[i].timestamp > rows[j].timestamp
                              \/ rows[i].timestamp = rows[j].timestamp /\ i <= j
         IN  <<rows[first]>> \o QueueOrder(rows, idx \ {first})

\* the rows fetched: ... WHERE status IN (statuses) ORDER BY ... LIMIT limit
queue_rows(rows, statuses, limit) ==
    LET ordered == QueueOrder(rows, {i \in DOMAIN rows : rows[i].status \in statuses})
    IN  SubSeq(ordered, 1, IF Len(ordered) < limit THEN Len(ordered) ELSE limit)

\* lines 263-275: the first fetched row of each project, in fetch order, with
\* the project's history
queue_entries(rows, fetched) ==
    LET firsts == SelectSeq([i \in DOMAIN fetched |-> [at |-> i, row |-> fetched[i]]],
                            LAMBDA e : \A j \in 1..(e.at - 1) :
                                          fetched[j].project_id # e.row.project_id)
    IN  [i \in DOMAIN firsts |->
            [project_id |-> firsts[i].row.project_id,
             current_status |-> firsts[i].row.status,
             last_review |-> firsts[i].row,
             history |-> get_project_history(rows, firsts[i].row.project_id)]]

\* what the last call returned, with the statuses it asked for
NoQueue == [calls |-> 0, statuses |-> {}, limit |-> 0, error |-> None, entries |-> <<>>]

DefaultQueueStatuses == {"MANUAL_REVIEW", "RECOMMENDED_ELIGIBLE", "RECOMMENDED_NOT_ELIGIBLE"}

\* get_review_queue(statuses, limit): _row_to_record is applied to the first
\* fetched row at line 266
get_review_queue(statuses, limit) ==
    LET fetched == queue_rows(ledger, statuses, limit)
        raises == fetched # <<>> /\ _row_to_record_raises(QueueColumns)
    IN  /\ queue' = [calls |-> 1, statuses |-> statuses, limit |-> limit,
                     error |-> IF raises THEN "IndexError" ELSE None,
                     entries |-> IF raises THEN <<>> ELSE queue_entries(ledger, fetched)]
        /\ UNCHANGED <<reviewVars, snapVars, lockVars, now, formDoc, created, traceVars, histRet>>

QueueStatusArgs == {DefaultQueueStatuses, {"APPROVED"}, {"APPROVED", "OVERRIDDEN"}}

GetReviewQueue ==
    \E statuses \in QueueStatusArgs, limit \in {0, 1, MaxRecords} :
        get_review_queue(statuses, limit)

----------------------------------------------------------------------------
(* trace_logger.py and main.py: trace files *)

\* at most this many trace files are created
MaxTraceFiles == 2

\* an envelope without the key checksum_sha256, and one that carries a value
\* under that key when it is handed to write_trace
NoChecksum == [absent |-> TRUE]

StaleChecksum == [stale |-> TRUE]

\* a key of a dict nested in the envelope: an int in memory, a str once the
\* file has been written by json.dump and read back by json.load
IntKey(n) == [kind |-> "int", n |-> n]

StrKey(n) == [kind |-> "str", n |-> n]

\* the decimal text of a key below 100
Digits(n) == IF n < 10 THEN <<n>> ELSE <<n \div 10, n % 10>>

\* the order in which sort_keys=True puts two keys: ints by value, strs by
\* their characters
KeyBefore(a, b) ==
    IF a.kind = "int" THEN a.n < b.n
    ELSE LET da == Digits(a.n)
             db == Digits(b.n)
         IN  \/ da[1] < db[1]
             \/ da[1] = db[1] /\ Len(da) < Len(db)
             \/ da[1] = db[1] /\ Len(da) = 2 /\ Len(db) = 2 /\ da[2] < db[2]

\* the texts of the keys of a nested dict in the order json.dumps writes them
RECURSIVE KeyTexts(_)
KeyTexts(keys) ==
    IF keys = {} THEN <<>>
    ELSE LET first == CHOOSE k \in keys : \A other \in keys \ {k} : KeyBefore(k, other)
         IN  <<Digits(first.n)>> \o KeyTexts(keys \ {first})

\* json.dumps(payload, sort_keys=True, ensure_ascii=False)
json_dumps(payload) ==
    [project_id |-> payload.project_id,
     scores |-> KeyTexts(payload.scores),
     legal_hold_flag |-> payload.legal_hold_flag,
     checksum_sha256 |-> payload.checksum_sha256]

\* _checksum: sha256 of the serialization; a digest that differs when the
\* serialization differs
_checksum(payload) == [of |-> json_dumps(payload)]

\* what json.load gives back for what json.dump wrote: keys are strs
json_load(envelope) == [envelope EXCEPT !.scores = {StrKey(k.n) : k \in @}]

\* write_trace, lines 37-38: the checksum is taken of the envelope as it was
\* handed over and stored under checksum_sha256
sealed(envelope) == [envelope EXCEPT !.checksum_sha256 = _checksum(envelope)]

\* a trace path: a generated name (timestamp and uuid), with _FROZEN appended
\* to the stem this many times
NoPath == [id |-> 0, frozen |-> 0]

Exists(files, path) == \E f \in files : f.path = path

FileAt(files, path) == CHOOSE f \in files : f.path = path

\* write_trace: os.open with O_CREAT | O_EXCL: a path that exists raises
\* FileExistsError and no file is changed
write_trace(files, envelope, path) ==
    IF Exists(files, path) THEN files
    ELSE files \cup {[path |-> path, data |-> json_load(sealed(envelope)),
                      written |-> json_load(sealed(envelope))]}

\* verify, lines 64-70: the stored checksum against the checksum of what is
\* stored without it
verify(files, path) ==
    LET data == FileAt(files, path).data
        saved == data.checksum_sha256
        payload == [data EXCEPT !.checksum_sha256 = NoChecksum]
    IN  saved = _checksum(payload)

\* the envelopes handed to write_trace
Envelopes ==
    [project_id : {1},
     scores : {{}, {IntKey(1), IntKey(2)}, {IntKey(2), IntKey(10)}},
     legal_hold_flag : {"absent", "true"},
     checksum_sha256 : {NoChecksum, StaleChecksum}]

NoTraceRet == [op |-> None, path |-> NoPath, status |-> None, verified |-> FALSE]

\* the generated name is new: a microsecond timestamp and 8 hex digits of a uuid4
FreshPath == [id |-> Cardinality({f \in trace_files : f.path.frozen = 0}) + 1, frozen |-> 0]

\* logger.write_trace(envelope) with a generated name
LogTrace(envelope) ==
    /\ Cardinality(trace_files) < MaxTraceFiles
    /\ trace_files' = write_trace(trace_files, envelope, FreshPath)
    /\ traceRet' = [op |-> "write", path |-> FreshPath, status |-> "written",
                    verified |-> FALSE]
    /\ UNCHANGED <<reviewVars, snapVars, lockVars, now, formDoc, queue, created, histRet>>

\* GET /trace_verify
VerifyTrace(path) ==
    /\ Exists(trace_files, path)
    /\ traceRet' = [op |-> "verify", path |-> path, status |-> "verified",
                    verified |-> verify(trace_files, path)]
    /\ UNCHANGED <<reviewVars, snapVars, lockVars, now, formDoc, queue, created, trace_files, histRet>>

\* somebody edits a stored file: another project id, or the legal hold flag
\* switched
Tamper(path) ==
    /\ Exists(trace_files, path)
    /\ LET f == FileAt(trace_files, path)
       IN  /\ f.data = f.written
           /\ \E data \in {[f.data EXCEPT !.project_id = 2],
                           [f.data EXCEPT !.legal_hold_flag =
                                IF @ = "true" THEN "absent" ELSE "true"]} :
                  trace_files' = (trace_files \ {f}) \cup {[f EXCEPT !.data = data]}
    /\ traceRet' = [op |-> "edit", path |-> path, status |-> "edited", verified |-> FALSE]
    /\ UNCHANGED <<reviewVars, snapVars, lockVars, now, formDoc, queue, created, histRet>>

\* trace_freeze, lines 543-544 without the pop of the checksum
frozen_copy_keeping_checksum(data) == [data EXCEPT !.legal_hold_flag = "true"]

\* trace_freeze, lines 543-544: the data of the copy
frozen_copy(data) ==
    [data EXCEPT !.legal_hold_flag = "true", !.checksum_sha256 = NoChecksum]

\* p.stem + "_FROZEN" + p.suffix
frozen_name(path) == [path EXCEPT !.frozen = @ + 1]

\* POST /trace_freeze
trace_freeze(path) ==
    /\ IF ~Exists(trace_files, path)
         THEN /\ traceRet' = [op |-> "freeze", path |-> path, status |-> "not_found",
                              verified |-> FALSE]
              /\ UNCHANGED trace_files
       ELSE IF FileAt(trace_files, path).data.legal_hold_flag = "true"
         THEN /\ traceRet' = [op |-> "freeze", path |-> path, status |-> "already_frozen",
                              verified |-> FALSE]
              /\ UNCHANGED trace_files
       ELSE IF Exists(trace_files, frozen_name(path))
         THEN /\ traceRet' = [op |-> "freeze", path |-> path, status |-> "FileExistsError",
                              verified |-> FALSE]
              /\ UNCHANGED trace_files
       ELSE /\ Cardinality(trace_files) < MaxTraceFiles
            /\ trace_files' = write_trace(trace_files,
                                          frozen_copy(FileAt(trace_files, path).data),
                                          frozen_name(path))
            /\ traceRet' = [op |-> "freeze", path |-> frozen_name(path),
                            status |-> "frozen_copy_created", verified |-> FALSE]
    /\ UNCHANGED <<reviewVars, snapVars, lockVars, now, formDoc, queue, created, histRet>>

\* for _ in range(5)
MaxAttempts == 5

\* the names _unique_path generates in the attempts of one call, one after
\* another, out of two names; two of them may be equal, or equal to a name
\* that is taken
GeneratedNames == [1..MaxAttempts -> {[id |-> 1, frozen |-> 0], [id |-> 2, frozen |-> 0]}]

\* the filenames a caller forces: names no _unique_path call generates
ForcedNames == {[id |-> i, frozen |-> 1] : i \in 1..MaxTraceFiles}

\* the path of attempt k: the forced filename, or the name generated for it
AttemptPath(filename, names, k) == IF filename # NoPath THEN filename ELSE names[k]

\* the loop of write_trace that leaves the file in place when json.dump raises
RECURSIVE write_trace_loop_keeping_partial(_, _, _, _, _, _)
write_trace_loop_keeping_partial(files, envelope, filename, names, dump_fails, k) ==
    IF k > MaxAttempts
    THEN [files |-> files, status |-> "FileExistsError", path |-> NoPath, attempts |-> MaxAttempts]
    ELSE LET path == AttemptPath(filename, names, k)
         IN  IF Exists(files, path)
             THEN IF filename # NoPath
                  THEN [files |-> files, status |-> "FileExistsError", path |-> NoPath,
                        attempts |-> k]
                  ELSE write_trace_loop_keeping_partial(files, envelope, filename, names,
                                                        dump_fails, k + 1)
             ELSE IF dump_fails
                  THEN [files |-> write_trace(files, envelope, path), status |-> "WriteError",
                        path |-> NoPath, attempts |-> k]
                  ELSE [files |-> write_trace(files, envelope, path), status |-> "written",
                        path |-> path, attempts |-> k]

\* write_trace, lines 40-62, from attempt k on: os.open with O_EXCL; a name
\* that exists is raised at once when it was forced and retried with the next
\* generated name otherwise; when json.dump raises, the file just created is
\* unlinked and the exception goes on to the caller; after the last attempt
\* FileExistsError("Trace file collision ...")
RECURSIVE write_trace_loop(_, _, _, _, _, _)
write_trace_loop(files, envelope, filename, names, dump_fails, k) ==
    IF k > MaxAttempts
    THEN [files |-> files, status |-> "FileExistsError", path |-> NoPath, attempts |-> MaxAttempts]
    ELSE LET path == AttemptPath(filename, names, k)
         IN  IF Exists(files, path)
             THEN IF filename # NoPath
                  THEN [files |-> files, status |-> "FileExistsError", path |-> NoPath,
                        attempts |-> k]
                  ELSE write_trace_loop(files, envelope, filename, names, dump_fails, k + 1)
             ELSE IF dump_fails
                  THEN [files |-> files, status |-> "WriteError", path |-> NoPath,
                        attempts |-> k]
                  ELSE [files |-> write_trace(files, envelope, path), status |-> "written",
                        path |-> path, attempts |-> k]

\* logger.write_trace(envelope, filename): the whole call, with the names
\* generated for it and whether json.dump raises
WriteTraceCall(envelope, filename, names, dump_fails) ==
    /\ Cardinality(trace_files) < MaxTraceFiles
    /\ LET r == write_trace_loop(trace_files, envelope, filename, names, dump_fails, 1)
       IN  /\ trace_files' = r.files
           /\ traceRet' = [op |-> "write_trace", path |-> r.path, status |-> r.status,
                           verified |-> FALSE, attempts |-> r.attempts,
                           filename |-> filename, names |-> names]
    /\ UNCHANGED <<reviewVars, snapVars, lockVars, now, formDoc, queue, created, histRet>>

\* the paths a caller may name
TracePaths == [id : 1..MaxTraceFiles, frozen : 0..1]

----------------------------------------------------------------------------
(* Specifications *)

Init ==
    /\ ledger = <<>>
    /\ mirror = <<>>
    /\ traces = <<>>
    /\ now = 0
    /\ pc = [p \in Procs |-> "idle"]
    /\ req = [p \in Procs |-> NoReq]
    /\ loc = [p \in Procs |-> NoLoc]
    /\ result = [p \in Procs |-> NoResult]
    /\ snapshots = {}
    /\ snapRet = NoSnapRet
    /\ form_locks = <<>>
    /\ txn = NoTxn
    /\ lpc = [p \in Procs |-> "idle"]
    /\ lreq = [p \in Procs |-> NoLockReq]
    /\ lres = [p \in Procs |-> None]
    /\ trace_files = {}
    /\ traceRet = NoTraceRet
    /\ histRet = NoHistory
    /\ formDoc = NoDoc
    /\ queue = NoQueue
    /\ created = NoCreated

\* reason lengths around the floor of 20
ReasonLens == {19, 20}

HandlerStep(p) ==
    \/ Authorize(p)
    \/ ApiGetState(p)
    \/ ValGetState(p)
    \/ Validate(p)
    \/ Insert(p)
    \/ WriteTrace(p)
    \/ WriteTraceFails(p)
    \/ Backfill(p)
    \/ Mirror(p)
    \/ MirrorFails(p)
    \/ RetLatest(p)
    \/ RetHistory(p)
    \/ Respond(p)

\* one client submitting reviews one after another: every status, role,
\* reason length and API key
Next ==
    \/ \E project_id \in {1}, status \in ReviewStatus, reviewer_role \in ReviewerRole,
          reason_len \in ReasonLens, api_key \in ApiKeys :
            SubmitReview(1, project_id, status, reviewer_role, reason_len, api_key)
    \/ \E project_id \in Projects : GetReviewState(1, project_id)
    \/ HandlerStep(1)
    \/ Tick

Spec == Init /\ [][Next]_vars

\* two clients racing on one project with requests that pass every check
\* on an unreviewed project
NextRace ==
    \/ \E p \in Procs, status \in {"APPROVED", "OVERRIDDEN"} :
            SubmitReview(p, 1, status, "DIRECTOR", MinReasonLen, "key_director")
    \/ \E p \in Procs : HandlerStep(p)
    \/ Tick

SpecRace == Init /\ [][NextRace]_vars

\* a reviewer working through the projects while snapshots are taken
NextSnap ==
    \/ \E project_id \in Projects, status \in {"APPROVED", "REJECTED", "OVERRIDDEN"} :
            SubmitReview(1, project_id, status, "DIRECTOR", MinReasonLen, "key_director")
    \/ HandlerStep(1)
    \/ FreezeApproved
    \/ Tick

SpecSnap == Init /\ [][NextSnap]_vars

\* snapshots taken of a store that has served some reviews: every project is
\* unreviewed, approved or rejected, each by one completed submission
ReviewedProjects(f) == SortedSeqOf({project_id \in Projects : f[project_id] # None})

ServedLedger(f) ==
    [i \in DOMAIN ReviewedProjects(f) |->
        [review_id |-> i, project_id |-> ReviewedProjects(f)[i],
         status |-> f[ReviewedProjects(f)[i]], timestamp |-> 0,
         source_confidence |-> NoConfidence, review_trace_path |-> i]]

ServedMirror(f) ==
    [i \in DOMAIN ReviewedProjects(f) |->
        [review_id |-> i, project_id |-> ReviewedProjects(f)[i],
         status |-> f[ReviewedProjects(f)[i]], created_at_utc |-> 0,
         review_trace_path |-> i]]

ServedTraces(f) ==
    [i \in DOMAIN ReviewedProjects(f) |->
        [project_id |-> ReviewedProjects(f)[i], review_id |-> i,
         old_status |-> "MANUAL_REVIEW", new_status |-> f[ReviewedProjects(f)[i]]]]

InitFreeze ==
    /\ \E f \in [Projects -> {None, "APPROVED", "REJECTED"}] :
          /\ ledger = ServedLedger(f)
          /\ mirror = ServedMirror(f)
          /\ traces = ServedTraces(f)
    /\ now = 0
    /\ pc = [p \in Procs |-> "idle"]
    /\ req = [p \in Procs |-> NoReq]
    /\ loc = [p \in Procs |-> NoLoc]
    /\ result = [p \in Procs |-> NoResult]
    /\ snapshots = {}
    /\ snapRet = NoSnapRet
    /\ form_locks = <<>>
    /\ txn = NoTxn
    /\ lpc = [p \in Procs |-> "idle"]
    /\ lreq = [p \in Procs |-> NoLockReq]
    /\ lres = [p \in Procs |-> None]
    /\ trace_files = {}
    /\ traceRet = NoTraceRet
    /\ histRet = NoHistory
    /\ formDoc = NoDoc
    /\ queue = NoQueue
    /\ created = NoCreated

NextFreeze ==
    \/ FreezeCohort
    \/ Tick

SpecFreeze == InitFreeze /\ [][NextFreeze]_vars

\* two callers generating and locking form versions
\* no role, and one role of each of the ranks 0, 1 and 2
ActorRoles == {None, "ANALYST", "REVIEWER", "DIRECTOR"}

OverrideReasonLens == {0, 29, 30}

NextLock ==
    \/ \E p \in Procs, tax_year \in TaxYears, form_version_id \in FormVersions,
          lock_reason \in LockReasons, override_reason_len \in OverrideReasonLens,
          actor_role \in ActorRoles :
            Generate(p, tax_year, form_version_id, lock_reason, override_reason_len,
                     actor_role)
    \/ \E p \in Procs : LockUpdate(p)
    \/ \E p \in Procs : LockInsert(p)
    \/ \E p \in Procs : LockCommit(p)
    \/ Tick

SpecLock == Init /\ [][NextLock]_vars

----------------------------------------------------------------------------
(* Properties of the review workflow *)

\* the rows of a project ordered by timestamp, equal timestamps by insertion
RECURSIVE ByTimeFrom(_, _)
ByTimeFrom(rows, idx) ==
    IF idx = {} THEN <<>>
    ELSE LET first == CHOOSE i \in idx : \A j \in idx :
                        \/ rows[i].timestamp < rows[j].timestamp
                        \/ rows[i].timestamp = rows[j].timestamp /\ i <= j
         IN  <<rows[first]>> \o ByTimeFrom(rows, idx \ {first})

ByTime(project_id) == ByTimeFrom(ledger, RowsOf(ledger, project_id))

IsTablePath(h) ==
    \A i \in DOMAIN h :
        h[i].status \in ALLOWED_TRANSITIONS(IF i = 1 THEN "MANUAL_REVIEW" ELSE h[i - 1].status)

\* C1: in every reachable state, under any interleaving of concurrent
\* submissions, the records of each project taken in timestamp order form a
\* path of the allowed-transition table that starts at MANUAL_REVIEW
C1_LedgerFollowsTable == \A project_id \in Projects : IsTablePath(ByTime(project_id))

Authenticated(p) == get_role_from_api_key(req[p].api_key) # None

ApproveRejectRoles == {"REVIEWER", "TAX_MANAGER", "DIRECTOR", "PARTNER", "ADMIN"}

OverrideRoles == {"DIRECTOR", "PARTNER", "ADMIN"}

\* the role named in the request may submit the status named in the request
RolePermits(role, status) ==
    /\ status \in {"APPROVED", "REJECTED"} => role \in ApproveRejectRoles
    /\ status = "OVERRIDDEN" => role \in OverrideRoles

\* the request of p asks for a status the table does not list for the
\* current status of its project
BadEdge(p) == req[p].status \notin ALLOWED_TRANSITIONS(CurrentStatus(req[p].project_id))

Refused(p) == pc[p] = "done" /\ result[p].code \in {400, 401, 403}

TableBeforeRole ==
    \A c \in ReviewStatus \cup {None}, s \in ReviewStatus, r \in ReviewerRole :
        s \notin ALLOWED_TRANSITIONS(IF c = None THEN "MANUAL_REVIEW" ELSE c)
            => validate_transition(c, s, r) = "edge"

\* C2 as stated: a request for an edge that is not in the table fails with
\* InvalidTransition (400) whatever the reviewer role and reason, and appends
\* no record; the validator checks the table before the role
C2_BadEdgeIsInvalidTransition ==
    /\ TableBeforeRole
    /\ \A p \in Procs :
        (Refused(p) /\ Authenticated(p) /\ BadEdge(p))
            => result[p].code = 400 /\ loc[p].review_id = 0

\* C2 as amended: a request (with a valid API key) for an edge that is not in
\* the table is refused and appends no record: with Forbidden (403) when the
\* role named in the request lacks the permission for the requested status,
\* because create_review_action checks the role before the table, and with
\* InvalidTransition (400) otherwise; no request that is answered 200 asked
\* for an edge outside the table; the validator checks the table before the role
C2_BadEdgeIsRefused ==
    /\ TableBeforeRole
    /\ \A p \in Procs :
        /\ (pc[p] = "done" /\ Authenticated(p) /\ loc[p].review_id = 0)
              => /\ result[p].code \in {400, 403}
                 /\ BadEdge(p) =>
                      result[p].code =
                          IF RolePermits(req[p].reviewer_role, req[p].status) THEN 400 ELSE 403
        /\ loc[p].review_id # 0
              => req[p].status \in ALLOWED_TRANSITIONS(loc[p].cur_status)

\* an authenticated REVIEWER asked for OVERRIDDEN -> APPROVED and got 400
C2_Witness ==
    \E p \in Procs :
        /\ Refused(p) /\ Authenticated(p) /\ BadEdge(p)
        /\ CurrentStatus(req[p].project_id) = "OVERRIDDEN"
        /\ req[p].status = "APPROVED" /\ req[p].reviewer_role = "REVIEWER"
        /\ result[p].code = 400

\* C3: a submission is accepted (a record is appended) for APPROVED or
\* REJECTED only from REVIEWER, TAX_MANAGER, DIRECTOR, PARTNER or ADMIN, and for
\* OVERRIDDEN only from DIRECTOR, PARTNER or ADMIN; a request of any other role
\* for these statuses is answered Forbidden (403) and appends nothing;
\* can_approve_reject is rank >= 1, can_override is rank >= 2
C3_RoleGating ==
    /\ \A role \in ReviewerRole \cup {None} :
        /\ can_approve_reject(role) <=> role \in ApproveRejectRoles
        /\ can_override(role) <=> role \in OverrideRoles
        /\ can_override(role) => can_approve_reject(role)
    /\ \A p \in Procs :
        /\ loc[p].review_id # 0 => RolePermits(req[p].reviewer_role, req[p].status)
        /\ (pc[p] = "done" /\ Authenticated(p)
              /\ ~RolePermits(req[p].reviewer_role, req[p].status))
              => result[p].code = 403 /\ loc[p].review_id = 0

\* a REVIEWER asked for OVERRIDDEN on an approved project and got 403, nothing appended
C3_Witness ==
    \E p \in Procs :
        /\ pc[p] = "done" /\ Authenticated(p)
        /\ req[p].status = "OVERRIDDEN" /\ req[p].reviewer_role = "REVIEWER"
        /\ CurrentStatus(req[p].project_id) = "APPROVED"
        /\ result[p].code = 403 /\ loc[p].review_id = 0

\* C4: once the current status of a project is OVERRIDDEN it stays OVERRIDDEN,
\* and a submission validated against OVERRIDDEN is refused and appends nothing
C4_OverriddenIsTerminal ==
    [][/\ \A project_id \in Projects :
            CurrentStatus(project_id) = "OVERRIDDEN" => CurrentStatus(project_id)' = "OVERRIDDEN"
       /\ \A p \in Procs :
            (pc[p] = "validate" /\ loc[p].cur_status = "OVERRIDDEN" /\ pc'[p] # "validate")
                => result'[p].code = 400 /\ ledger' = ledger]_vars

----------------------------------------------------------------------------
(* Properties of the form lock *)

ActiveRows(rows, tax_year) ==
    {i \in DOMAIN rows : rows[i].tax_year = tax_year /\ rows[i].is_active}

\* a step in which p makes a generate call
Generates(p) ==
    /\ lpc[p] \in {"idle", "done"}
    /\ lpc'[p] = "update" \/ (lpc'[p] = "done" /\ lres'[p] # lres[p])

\* the step in which p commits its lock_form_version
Commits(p) == lpc[p] = "commit" /\ lpc'[p] = "done"

C6_OneActiveLockPerYear ==
    \A tax_year \in TaxYears :
        /\ Cardinality(ActiveRows(form_locks, tax_year)) <= 1
        /\ txn # NoTxn => Cardinality(ActiveRows(txn.rows, tax_year)) <= 1

\* two lock_form_version calls for 2024 are in progress, one before its commit
\* and one waiting for the database, while 2024 has an active lock
C6_Witness ==
    \E p, q \in Procs :
        /\ lpc[p] = "commit" /\ lpc[q] = "update"
        /\ lreq[p].tax_year = 2024 /\ lreq[q].tax_year = 2024
        /\ ActiveRows(form_locks, 2024) # {}

\* C7: a generate call for a cohort without an active lock is never refused,
\* whatever override it carries; when its lock_form_version commits,
\* get_active_form_lock of the cohort returns the version it locked; and the
\* active lock of a cohort changes only when a lock of that cohort commits
C7_UnlockedToLocked ==
    [][/\ \A p \in Procs :
            Generates(p) =>
              \A tax_year \in TaxYears :
                get_active_form_lock(form_locks, tax_year) = NoLock =>
                  \/ lpc'[p] = "update" /\ lres'[p] # "LockConflictError"
                  \/ \A form_version_id \in FormVersions, lock_reason \in LockReasons,
                        override_reason_len \in OverrideReasonLens, actor_role \in ActorRoles :
                          ~Generate(p, tax_year, form_version_id, lock_reason,
                                    override_reason_len, actor_role)
       /\ \A p \in Procs :
               Commits(p) =>
                   /\ lres'[p] = "locked"
                   /\ get_active_form_lock(form_locks', lreq[p].tax_year).active_form_version_id
                        = lreq[p].form_version_id
       /\ \A tax_year \in TaxYears :
               get_active_form_lock(form_locks', tax_year)
                    # get_active_form_lock(form_locks, tax_year)
                   => \E p \in Procs : Commits(p) /\ lreq[p].tax_year = tax_year]_vars

\* a call has locked v2 for 2025, which had never been locked, and
\* get_active_form_lock(2025) returns v2
C7_Witness ==
    \E p \in Procs :
        /\ lpc[p] = "done" /\ lres[p] = "locked"
        /\ Cardinality({i \in DOMAIN form_locks : form_locks[i].tax_year = 2025}) = 1
        /\ get_active_form_lock(form_locks, 2025).active_form_version_id = "v2"
        /\ get_active_form_lock(form_locks, 2025).locked_by = p

SameLock(a, b) ==
    /\ a.lock_id = b.lock_id
    /\ a.tax_year = b.tax_year
    /\ a.active_form_version_id = b.active_form_version_id
    /\ a.locked_at_utc = b.locked_at_utc
    /\ a.locked_by = b.locked_by
    /\ a.lock_reason = b.lock_reason

\* C8: the commit of a lock appends exactly one row, which is active, keeps
\* every earlier row with its lock_id, version, locked_by and lock_reason,
\* clears is_active on the earlier rows of that cohort only, and leaves exactly
\* one active row for the cohort; the number of rows never decreases
C8_SupersededNotDeleted ==
    [][/\ Len(form_locks') >= Len(form_locks)
       /\ \A i \in DOMAIN form_locks :
               i \in DOMAIN form_locks' /\ SameLock(form_locks'[i], form_locks[i])
       /\ \A p \in Procs :
               Commits(p) =>
                   /\ Len(form_locks') = Len(form_locks) + 1
                   /\ form_locks'[Len(form_locks')].is_active
                   /\ form_locks'[Len(form_locks')].tax_year = lreq[p].tax_year
                   /\ \A i \in DOMAIN form_locks :
                         form_locks'[i].is_active =
                             (form_locks[i].is_active /\ form_locks[i].tax_year # lreq[p].tax_year)
                   /\ Cardinality(ActiveRows(form_locks', lreq[p].tax_year)) = 1]_vars

\* two locks of 2024 have been replaced in turn: both replaced rows are still
\* there, inactive, before the one active row
C8_Witness ==
    \E p \in Procs :
        /\ lpc[p] = "done" /\ lres[p] = "locked"
        /\ Len(form_locks) = 3
        /\ \A i \in DOMAIN form_locks : form_locks[i].tax_year = 2024
        /\ ActiveRows(form_locks, 2024) = {3}
        /\ form_locks[3].locked_by = p

----------------------------------------------------------------------------
(* Properties of the eligibility snapshot *)

\* the candidates whose current status in the review ledger is APPROVED
ApprovedInLedger(project_ids) ==
    {project_id \in SetOf(project_ids) : CurrentStatus(project_id) = "APPROVED"}

\* C9: a create_eligibility_snapshot call without approved_project_ids, made
\* while no submission is in progress, returns as approved_project_ids exactly
\* the candidates whose latest status in the review ledger is APPROVED
C9_SnapshotKeepsLedgerApproved ==
    [][(snapRet'.calls = snapRet.calls + 1 /\ \A p \in Procs : pc[p] \in {"idle", "done"}) =>
          \A project_ids \in IdLists(MaxIds) :
              create_eligibility_snapshot(2024, project_ids, "alice", NoSnapshotId, NotGiven)
                  => SetOf(snapRet'.approved_project_ids) = ApprovedInLedger(project_ids)]_vars

\* C10: when two consecutive create_eligibility_snapshot calls that derive the
\* snapshot id are made for the same tax_year and keep the same set of ids,
\* in whatever order and with whatever repetition the ids were passed, the
\* second returns the same snapshot_sha256 and the same snapshot_id as the
\* first and leaves the number of stored snapshot rows unchanged
C10_SnapshotIdempotent ==
    [][(/\ snapRet.calls >= 1 /\ snapRet'.calls = snapRet.calls + 1
        /\ snapRet.derived /\ snapRet'.derived
        /\ snapRet'.tax_year = snapRet.tax_year
        /\ SetOf(snapRet'.approved_project_ids) = SetOf(snapRet.approved_project_ids))
          => /\ snapRet'.snapshot_sha256 = snapRet.snapshot_sha256
             /\ snapRet'.snapshot_id = snapRet.snapshot_id
             /\ Cardinality(snapshots') = Cardinality(snapshots)]_vars

\* the second of two calls for 2024 that both kept projects 1 and 2 has
\* returned, at a later time than the first, and one row is stored
C10_Witness ==
    /\ snapRet.calls = 2 /\ snapRet.derived /\ snapRet.tax_year = 2024
    /\ SetOf(snapRet.approved_project_ids) = {1, 2}
    /\ now = 1
    /\ snapshots = {[snapshot_id |-> snapRet.snapshot_id, tax_year |-> 2024,
                     snapshot_sha256 |-> snapRet.snapshot_sha256,
                     approved_projects_json |-> snapRet.approved_project_ids,
                     created_at_utc |-> 1, created_by |-> "bob"]}

\* C20: when approved_project_ids is passed to create_eligibility_snapshot,
\* the ids returned and stored are the ids passed, each once and in ascending
\* order, whatever the candidate ids and whatever the statuses recorded for
\* those projects
C20_ExplicitIdsVerbatim ==
    snapRet.explicit =>
        /\ SetOf(snapRet.approved_project_ids) = snapRet.given
        /\ \A i, j \in DOMAIN snapRet.approved_project_ids :
              i < j => snapRet.approved_project_ids[i] < snapRet.approved_project_ids[j]
        /\ \E r \in snapshots :
              /\ r.snapshot_id = snapRet.snapshot_id
              /\ r.approved_projects_json = snapRet.approved_project_ids

\* projects 1 and 2 were passed as approved while project 1 stands REJECTED
\* and project 2 has no review, and both are in the snapshot
C20_Witness ==
    /\ snapRet.explicit /\ snapRet.given = {1, 2}
    /\ snapRet.approved_project_ids = <<1, 2>>
    /\ get_latest_review_status(mirror, 1) = "REJECTED"
    /\ get_latest_review_status(mirror, 2) = None

----------------------------------------------------------------------------
(* Properties of the form computation *)

NextForm ==
    \/ ComputeForm
    \/ Tick

SpecForm == Init /\ [][NextForm]_vars

\* C11: two successive compute_form6765 calls with the same header, inputs,
\* snapshot and ruleset_version, made at different times, return the same
\* form_version_sha256 and the same form_version_id
C11_DocumentDeterminism ==
    [][(/\ formDoc.calls >= 1 /\ formDoc'.calls = formDoc.calls + 1
        /\ formDoc.error = None /\ formDoc'.error = None
        /\ formDoc'.header = formDoc.header
        /\ formDoc'.inputs = formDoc.inputs
        /\ formDoc'.snapshot = formDoc.snapshot
        /\ formDoc'.ruleset_version = formDoc.ruleset_version
        /\ formDoc'.computed_at_utc # formDoc.computed_at_utc)
          => /\ formDoc'.form_version_sha256 = formDoc.form_version_sha256
             /\ formDoc'.form_version_id = formDoc.form_version_id]_vars

----------------------------------------------------------------------------
(* Properties of stored snapshots *)

NextSnapId == FreezeWithId \/ Tick

SpecSnapId == Init /\ [][NextSnapId]_vars

\* C12: a stored snapshot never changes: whatever is done later, a call of
\* create_eligibility_snapshot with an explicit snapshot_id included, every
\* stored row keeps its cohort, id list, hash, created_at and created_by
C12_SnapshotImmutable == [][\A r \in snapshots : r \in snapshots']_vars

----------------------------------------------------------------------------
(* Properties of the review state that is read back *)

\* the request of p is a submission, not a read
IsSubmission(p) == req[p].status # None

\* C13: a submission that succeeds (200) reports, in the state it returns,
\* the status that was just submitted
C13_ReportsSubmittedStatus ==
    \A p \in Procs :
        (pc[p] = "done" /\ IsSubmission(p) /\ result[p].code = 200)
            => result[p].current_status = req[p].status

\* the request of p passes the table and the role check
ValidRequest(p) ==
    /\ Authenticated(p)
    /\ RolePermits(req[p].reviewer_role, req[p].status)
    /\ req[p].status \in ALLOWED_TRANSITIONS(loc[p].cur_status)

\* C14: a submission of REJECTED or OVERRIDDEN with a reason shorter than 20
\* characters is refused and appends nothing; with a reason of exactly 20
\* characters a request that passes the table and the role check is accepted
\* and its record appended; APPROVED is accepted with a shorter reason
C14_ReasonFloor ==
    \A p \in Procs :
        (pc[p] = "done" /\ IsSubmission(p)) =>
            /\ (req[p].status \in {"REJECTED", "OVERRIDDEN"} /\ req[p].reason_len < 20)
                  => /\ result[p].code \in {400, 401, 403}
                     /\ loc[p].review_id = 0
                     /\ ValidRequest(p) => result[p].code = 400
            /\ (ValidRequest(p) /\ (req[p].reason_len >= 20 \/ req[p].status = "APPROVED"))
                  => /\ loc[p].review_id # 0
                     /\ result[p].code \in {200, 500}

\* on a project whose current status is APPROVED, a DIRECTOR was refused
\* OVERRIDDEN with 19 characters (400); the approval itself had gone through
\* with 19 characters
C14_Witness ==
    \E p \in Procs :
        /\ pc[p] = "done" /\ ValidRequest(p)
        /\ req[p].status = "OVERRIDDEN" /\ req[p].reason_len = 19
        /\ result[p].code = 400 /\ loc[p].review_id = 0
        /\ Len(ledger) = 1 /\ ledger[1].status = "APPROVED"

\* C15: for a project with no record the state read back has current status
\* MANUAL_REVIEW, no last review and an empty history; and the validator
\* treats a missing current status as MANUAL_REVIEW for every requested
\* status and role
C15_NoRecordIsManualReview ==
    /\ \A s \in ReviewStatus, r \in ReviewerRole \cup {None} :
          validate_transition(None, s, r) = validate_transition("MANUAL_REVIEW", s, r)
    /\ \A project_id \in Projects :
          RowsOf(ledger, project_id) = {} => CurrentStatus(project_id) = "MANUAL_REVIEW"
    /\ \A p \in Procs :
          (pc[p] = "done" /\ result[p].code = 200
             /\ RowsOf(ledger, req[p].project_id) = {})
            => /\ result[p].current_status = "MANUAL_REVIEW"
               /\ result[p].latest = NoRecord
               /\ result[p].history = <<>>

\* the state of project 2 was read while only project 1 has records
C15_Witness ==
    \E p \in Procs :
        /\ pc[p] = "done" /\ result[p].code = 200 /\ ~IsSubmission(p)
        /\ req[p].project_id = 2 /\ RowsOf(ledger, 2) = {}
        /\ Len(ledger) = MaxRecords
        /\ result[p].current_status = "MANUAL_REVIEW"

\* the record of a project that has the latest timestamp and, among those,
\* was inserted last
LastOfLatest(project_id) ==
    LET mine == RowsOf(ledger, project_id)
    IN  ledger[CHOOSE i \in mine : \A j \in mine :
                  \/ ledger[j].timestamp < ledger[i].timestamp
                  \/ ledger[j].timestamp = ledger[i].timestamp /\ j <= i]

\* C16: the current status of a project is the status of its record with the
\* latest timestamp, and of the one inserted last among records with that
\* timestamp
C16_LatestInsertedLastWins ==
    \A project_id \in Projects :
        RowsOf(ledger, project_id) # {}
            => CurrentStatus(project_id) = LastOfLatest(project_id).status

----------------------------------------------------------------------------
(* Properties of the ledger as a store *)

\* records a caller may hand to create_review
DirectRecords ==
    [review_id : 1..MaxRecords, project_id : Projects,
     status : {"APPROVED", "OVERRIDDEN"}, timestamp : {now},
     source_confidence : {NoConfidence}, review_trace_path : {0}]

\* create_review and update_review_trace called with any review_id
NextAppend ==
    \/ \E record \in DirectRecords : CreateReview(record)
    \/ \E review_id \in 1..MaxRecords : UpdateReviewTrace(review_id, 1)
    \/ Tick

SpecAppend == Init /\ [][NextAppend]_vars

\* the fields of a record other than the trace reference that is backfilled
SameButTrace(a, b) == [a EXCEPT !.review_trace_path = 0] = [b EXCEPT !.review_trace_path = 0]

ReviewIds(rows) == {rows[i].review_id : i \in DOMAIN rows}

----------------------------------------------------------------------------
(* Properties of the review queue *)

\* records with a fresh review_id, with and without a source_confidence
QueueRecords ==
    [review_id : {Len(ledger) + 1}, project_id : Projects,
     status : {"MANUAL_REVIEW", "APPROVED"}, timestamp : {now},
     source_confidence : {NoConfidence, 10, 90}, review_trace_path : {0}]

NextQueue ==
    \/ \E record \in QueueRecords : CreateReview(record)
    \/ GetReviewQueue
    \/ Tick

SpecQueue == Init /\ [][NextQueue]_vars

\* C18: a call of get_review_queue returns its list, and an entry of the list
\* is for a project whose latest record has a status in the requested set, is
\* built from that latest record, and gives the project's current status
C18_QueueLatestOnly ==
    [][queue' # queue =>
        /\ queue'.error = None
        /\ \A i \in DOMAIN queue'.entries :
              LET e == queue'.entries[i]
              IN  /\ CurrentStatus(e.project_id) \in queue'.statuses
                  /\ e.current_status = CurrentStatus(e.project_id)
                  /\ e.last_review = get_latest_review(ledger, e.project_id)]_vars

\* a comes before b in the order of the contract: ascending source_confidence
\* with nulls last, then descending timestamp
QueueBefore(a, b) ==
    \/ a.source_confidence # NoConfidence /\ b.source_confidence = NoConfidence
    \/ /\ a.source_confidence # NoConfidence /\ b.source_confidence # NoConfidence
       /\ a.source_confidence < b.source_confidence
    \/ a.source_confidence = b.source_confidence /\ a.timestamp >= b.timestamp

\* C19: a call of get_review_queue returns its list sorted by ascending
\* source_confidence, entries without one after all entries with one, and
\* by descending timestamp among equal confidences
C19_QueueSorted ==
    [][queue' # queue =>
        /\ queue'.error = None
        /\ \A i, j \in DOMAIN queue'.entries :
              i < j => QueueBefore(queue'.entries[i].last_review,
                                   queue'.entries[j].last_review)]_vars

----------------------------------------------------------------------------
(* Properties of the computed lines *)

NextLines == ComputeLines \/ Tick

SpecLines == Init /\ [][NextLines]_vars

\* C21: compute_form6765 fails, with the error that names the missing inputs,
\* exactly when the credit method is REGULAR and fixed_base_percentage or
\* avg_annual_gross_receipts is absent; with ASC it returns a document
\* whether they are there or not; a failing call returns no document
C21_MissingRegularInputs ==
    formDoc.calls >= 1 =>
        LET absent == \/ formDoc.inputs.fixed_base_percentage = NoAmount
                      \/ formDoc.inputs.avg_annual_gross_receipts = NoAmount
        IN  /\ formDoc.error # None <=> (formDoc.inputs.credit_method = "REGULAR" /\ absent)
            /\ formDoc.error # None =>
                  /\ formDoc.error = "ValueError"
                  /\ formDoc.lines = NoLines
                  /\ formDoc.form_version_id = NoFormVersionId
                  /\ formDoc.form_version_sha256 = NoFormSha
            /\ formDoc.error = None =>
                  /\ formDoc.lines # NoLines
                  /\ formDoc.form_version_id # NoFormVersionId

\* a REGULAR call with the percentage but without the receipts has failed
\* after an ASC call without either had returned a document
C21_Witness ==
    /\ formDoc.calls = 2 /\ formDoc.error = "ValueError"
    /\ formDoc.inputs.credit_method = "REGULAR"
    /\ formDoc.inputs.fixed_base_percentage # NoAmount
    /\ formDoc.inputs.avg_annual_gross_receipts = NoAmount

Abs(n) == IF n < 0 THEN 0 - n ELSE n

\* amount, in cents, is num/den rounded to the nearest cent
NearestCent(amount, num, den) == 2 * Abs(den * amount - num) <= den

\* C22: in a returned document line_28 is the sum of wages, supplies,
\* computers and the qualified contract research (65% of the gross, to the
\* cent); when prior_3_year_qre_total is absent or zero, line_30 and line_31
\* are 0 and line_32 is 6% of line_28; when it is positive, line_30 is one
\* sixth of it, line_31 is max(0, line_28 - line_30) and line_32 is 14% of
\* line_31, each to the cent; wages of 100000.00 alone give line_28 =
\* 100000.00 and line_32 = 6000.00
C22_AscArithmetic ==
    (formDoc.calls >= 1 /\ formDoc.error = None) =>
        LET i == formDoc.inputs
            l == formDoc.lines
        IN  /\ NearestCent(l.line_27, i.qre_contract_research_gross * ContractPct, 100)
            /\ l.line_28 = i.qre_wages + i.qre_supplies + i.qre_computers + l.line_27
            /\ i.prior_3_year_qre_total \in {NoAmount, 0} =>
                  /\ l.line_30 = 0 /\ l.line_31 = 0
                  /\ NearestCent(l.line_32, 6 * l.line_28, 100)
            /\ i.prior_3_year_qre_total > 0 =>
                  /\ NearestCent(l.line_30, i.prior_3_year_qre_total, 6)
                  /\ l.line_31 = (IF l.line_28 > l.line_30 THEN l.line_28 - l.line_30 ELSE 0)
                  /\ NearestCent(l.line_32, 14 * l.line_31, 100)
            /\ (/\ i.qre_wages = 10000000 /\ i.qre_supplies = 0 /\ i.qre_computers = 0
                /\ i.qre_contract_research_gross = 0
                /\ i.prior_3_year_qre_total = NoAmount)
                  => l.line_28 = 10000000 /\ l.line_32 = 600000

\* every kind of QRE is present with a positive prior-year total below six
\* times the current QRE, and line_32 is 14% of a positive line_31
C22_Witness ==
    /\ formDoc.calls >= 1 /\ formDoc.error = None
    /\ formDoc.inputs.qre_wages = 10000000 /\ formDoc.inputs.qre_supplies = 2500050
    /\ formDoc.inputs.qre_computers = 1 /\ formDoc.inputs.qre_contract_research_gross = 333
    /\ formDoc.inputs.prior_3_year_qre_total = 6000001
    /\ formDoc.lines.line_28 = 12500267 /\ formDoc.lines.line_30 = 1000000
    /\ formDoc.lines.line_31 = 11500267 /\ formDoc.lines.line_32 = 1610037

----------------------------------------------------------------------------
(* Properties of trace files *)

NextTrace ==
    \/ \E envelope \in Envelopes : LogTrace(envelope)
    \/ \E path \in TracePaths : VerifyTrace(path) \/ Tamper(path) \/ trace_freeze(path)

SpecTrace == Init /\ [][NextTrace]_vars

\* C23: the file that write_trace has just written verifies, whatever the
\* envelope; and a stored file whose content, other than the checksum, is no
\* longer what was written does not verify
C23_ChecksumRoundTrip ==
    /\ traceRet.op = "write" => verify(trace_files, traceRet.path)
    /\ \A f \in trace_files :
          (f.data # f.written /\ f.data.checksum_sha256 = f.written.checksum_sha256)
              => ~verify(trace_files, f.path)

\* a trace_freeze call has just returned
FreezeStep == traceRet'.op = "freeze" /\ traceRet' # traceRet

\* the path that call was given
FreezeSource ==
    IF traceRet'.status = "frozen_copy_created"
    THEN [traceRet'.path EXCEPT !.frozen = @ - 1]
    ELSE traceRet'.path

\* the call left every file as it was and added one file, under the _FROZEN
\* name, with legal_hold_flag set and a checksum of its own that verifies
FrozenCopyCreated ==
    /\ traceRet'.status = "frozen_copy_created"
    /\ trace_files \subseteq trace_files'
    /\ ~Exists(trace_files, frozen_name(FreezeSource))
    /\ \E copy \in trace_files' :
          /\ trace_files' = trace_files \cup {copy}
          /\ copy.path = frozen_name(FreezeSource)
          /\ copy.data.legal_hold_flag = "true"
          /\ copy.data.project_id = FileAt(trace_files, FreezeSource).data.project_id
          /\ verify(trace_files', copy.path)

\* C24 as stated: trace_freeze of a stored record leaves every stored file
\* unchanged and creates a separate record with legal_hold_flag set and a
\* fresh checksum that verifies; of a record whose legal_hold_flag is true it
\* creates nothing
C24_FreezeCreatesCopy ==
    [][FreezeStep =>
        /\ trace_files \subseteq trace_files'
        /\ Exists(trace_files, FreezeSource) =>
              IF FileAt(trace_files, FreezeSource).data.legal_hold_flag = "true"
              THEN trace_files' = trace_files
              ELSE FrozenCopyCreated]_vars

\* C24 as amended: trace_freeze never changes a stored file; of a record
\* whose legal_hold_flag is true it creates nothing (already_frozen); of any
\* other stored record it creates the separate _FROZEN record with
\* legal_hold_flag set and a fresh checksum that verifies, unless a file of
\* that name exists, and then it fails with FileExistsError and creates
\* nothing; of a path that does not exist it creates nothing (not_found)
C24_FreezeNeverMutates ==
    [][FreezeStep =>
        /\ trace_files \subseteq trace_files'
        /\ IF ~Exists(trace_files, FreezeSource)
             THEN traceRet'.status = "not_found" /\ trace_files' = trace_files
           ELSE IF FileAt(trace_files, FreezeSource).data.legal_hold_flag = "true"
             THEN traceRet'.status = "already_frozen" /\ trace_files' = trace_files
           ELSE IF Exists(trace_files, frozen_name(FreezeSource))
             THEN traceRet'.status = "FileExistsError" /\ trace_files' = trace_files
           ELSE FrozenCopyCreated]_vars

\* a record has been frozen: the original is stored as written, is not on
\* hold and verifies, and its _FROZEN copy is on hold and verifies
C24_Witness ==
    /\ traceRet.op = "freeze" /\ traceRet.status = "frozen_copy_created"
    /\ traceRet.path = [id |-> 1, frozen |-> 1]
    /\ Exists(trace_files, [id |-> 1, frozen |-> 0])
    /\ LET original == FileAt(trace_files, [id |-> 1, frozen |-> 0])
           copy == FileAt(trace_files, traceRet.path)
       IN  /\ original.data = original.written
           /\ original.data.legal_hold_flag = "absent"
           /\ verify(trace_files, original.path)
           /\ copy.data.legal_hold_flag = "true"
           /\ verify(trace_files, copy.path)


----------------------------------------------------------------------------
(* Properties of create_review_action after the append *)

\* the request of p has written its trace and back-filled the path, and the
\* mirror holds no row of its review: record_review_action failed
MirrorFailed(p) ==
    /\ pc[p] \in {"ret_latest", "ret_history", "done"}
    /\ loc[p].trace_path # 0
    /\ ~\E i \in DOMAIN mirror : mirror[i].review_id = loc[p].review_id

\* C25: a failure of the mirror write never fails or rolls back the primary
\* append: the ledger keeps the new record with its trace path, and the request
\* ends with status 200 and a ReviewState read after the append, whose history
\* holds the new record.
C25_MirrorFailureTolerated ==
    \A p \in Procs : MirrorFailed(p) =>
        /\ \E i \in DOMAIN ledger :
              /\ ledger[i].review_id = loc[p].review_id
              /\ ledger[i].project_id = req[p].project_id
              /\ ledger[i].status = req[p].status
              /\ ledger[i].review_trace_path = loc[p].trace_path
        /\ pc[p] = "done" =>
              /\ result[p].code = 200
              /\ \E k \in DOMAIN result[p].history :
                    result[p].history[k].review_id = loc[p].review_id

\* a second review of the project answered 200 although its mirror write
\* failed, the first review being mirrored
C25_Witness ==
    /\ pc[1] = "done"
    /\ MirrorFailed(1)
    /\ result[1].code = 200
    /\ Len(ledger) = 2
    /\ Len(mirror) = 1
    /\ Len(result[1].history) = 2


\* the request of p carries an API key whose role lookup fails: no key, a key
\* that is not configured, or a key configured under a name that is no role
RoleLookupFails(p) == IsSubmission(p) /\ get_role_from_api_key(req[p].api_key) = None

\* C26: a submission whose API key has no role is answered 401 by the first
\* step of the handler, whatever its status, declared role and reason are:
\* nothing is read or validated, no record is appended, no trace is written,
\* and the request does nothing more than send the 401.
C26_UnauthorizedFirst ==
    [][\A p \in Procs : (RoleLookupFails(p) /\ pc'[p] # pc[p]) =>
          /\ ledger' = ledger /\ traces' = traces /\ mirror' = mirror
          /\ loc'[p] = NoLoc
          /\ \/ pc[p] = "auth" /\ pc'[p] = "done" /\ result'[p] = Failed(401)
             \/ pc[p] = "done" /\ result[p] = Failed(401) /\ pc'[p] = "idle"]_vars

\* a key configured under the name INTERN got 401 for an approval declared
\* by an ANALYST with a short reason, on a project that has a review
C26_Witness ==
    /\ pc[1] = "done"
    /\ result[1] = Failed(401)
    /\ req[1].api_key = "key_intern"
    /\ req[1].status = "APPROVED"
    /\ req[1].reviewer_role = "ANALYST"
    /\ req[1].reason_len < MinReasonLen
    /\ Len(ledger) = 1
    /\ Len(traces) = 1


----------------------------------------------------------------------------
(* Properties of get_project_history *)

\* records of the caller's making: any project, a timestamp at, before or
\* after the clock
HistoryRecords ==
    [review_id : {Len(ledger) + 1}, project_id : Projects,
     status : {"APPROVED", "REJECTED"}, timestamp : 0..MaxTime,
     source_confidence : {NoConfidence}, review_trace_path : {0}]

NextHistory ==
    \/ \E record \in HistoryRecords : CreateReview(record)
    \/ \E review_id \in 1..MaxRecords : UpdateReviewTrace(review_id, 1)
    \/ \E project_id \in Projects : GetProjectHistory(project_id)

SpecHistory == Init /\ [][NextHistory]_vars

\* C27: get_project_history returns every record of the project that is in
\* the ledger, each once, and no record of another project, with timestamps
\* that never decrease along the list; and a read that follows a read of the
\* same project with no append in between returns the same records in the
\* same order (a trace reference backfilled in between is the one field that
\* may differ)
C27_HistoryComplete ==
    [][histRet' # histRet =>
        LET rows == histRet'.rows
            project_id == histRet'.project_id
        IN  /\ \A i \in DOMAIN ledger : ledger[i].project_id = project_id =>
                  Cardinality({k \in DOMAIN rows : rows[k] = ledger[i]}) = 1
            /\ \A k \in DOMAIN rows :
                  /\ rows[k].project_id = project_id
                  /\ \E i \in DOMAIN ledger : ledger[i] = rows[k]
            /\ \A k \in DOMAIN rows : \A l \in DOMAIN rows :
                  k < l => rows[k].timestamp <= rows[l].timestamp
            /\ (histRet.project_id = project_id /\ histRet.at = Len(ledger)) =>
                  /\ Len(rows) = Len(histRet.rows)
                  /\ \A k \in DOMAIN rows : SameButTrace(rows[k], histRet.rows[k])]_vars

\* the history of a project read with two records in it, the older one
\* inserted last, while the other project has none of them
C27_Witness ==
    /\ histRet.project_id = 1
    /\ histRet.at = 2
    /\ Len(histRet.rows) = 2
    /\ histRet.rows[1].review_id = 2
    /\ histRet.rows[1].timestamp < histRet.rows[2].timestamp
    /\ Len(ledger) = 2


----------------------------------------------------------------------------
(* Properties of concurrent lock attempts *)

\* C28: the check of the active lock and the replacement of the lock are
\* atomic per tax year: a caller whose lock_form_version commits deactivates
\* no active lock other than the one its own check returned; a caller that
\* saw the year unlocked deactivates none
C28_CheckAndLockAtomic ==
    [][\A p \in Procs : (lpc[p] = "commit" /\ lpc'[p] = "done") =>
          \A i \in DOMAIN form_locks :
              (form_locks[i].is_active /\ ~form_locks'[i].is_active)
                  => form_locks[i] = lreq[p].observed]_vars


----------------------------------------------------------------------------
(* Properties of the role a submission is decided on *)

\* C29: the permission decision rests on the role of the caller's API key
\* alone: a record is appended only for a request whose API-key role may
\* submit the status, whatever reviewer_role the request body declares
C29_KeyRoleDecides ==
    \A p \in Procs :
        loc[p].review_id # 0 =>
            RolePermits(get_role_from_api_key(req[p].api_key), req[p].status)


----------------------------------------------------------------------------
(* Properties of a submission that ends in an error *)

\* C30: a submission is all-or-nothing for the ledger: one that ended with an
\* error (401, 403, 400, or 500 from the trace write) has left no record in
\* the ledger, and one that ended with 200 has left a record whose
\* review_trace_path names the trace written for it
C30_AllOrNothing ==
    \A p \in Procs : (IsSubmission(p) /\ pc[p] = "done") =>
        IF result[p].code # 200
        THEN ~review_id_exists(ledger, loc[p].review_id)
        ELSE \E i \in DOMAIN ledger :
                /\ ledger[i].review_id = loc[p].review_id
                /\ ledger[i].review_trace_path = loc[p].trace_path
                /\ loc[p].trace_path \in DOMAIN traces
                /\ traces[loc[p].trace_path].review_id = loc[p].review_id


----------------------------------------------------------------------------
(* Properties of the ReviewState that is returned *)

\* C31: every ReviewState handed back is consistent in itself: last_review is
\* the last element of history and current_status is its status, or history
\* is empty, last_review is absent and current_status is MANUAL_REVIEW
C31_StateConsistent ==
    \A p \in Procs : (pc[p] = "done" /\ result[p].code = 200) =>
        IF result[p].history = <<>>
        THEN result[p].latest = NoRecord /\ result[p].current_status = "MANUAL_REVIEW"
        ELSE /\ result[p].latest = result[p].history[Len(result[p].history)]
             /\ result[p].current_status = result[p].latest.status


----------------------------------------------------------------------------
(* Properties of the mirror in the form lock store *)

\* C32: after a completed submission the mirror agrees with the ledger: the
\* latest status of the project in review_actions is the current status of
\* the project in the ledger, so list_approved_projects keeps the project
\* exactly when the ledger has it APPROVED
C32_MirrorAgrees ==
    \A p \in Procs : (IsSubmission(p) /\ pc[p] = "done" /\ result[p].code = 200) =>
        /\ get_latest_review_status(mirror, req[p].project_id)
              = get_latest_review(ledger, req[p].project_id).status
        /\ SetOf(list_approved_projects(mirror, <<req[p].project_id>>))
              = ApprovedInLedger(<<req[p].project_id>>)


----------------------------------------------------------------------------
(* Properties of the records of one project *)

\* one client submitting reviews of one project one after another, as a
\* DIRECTOR with a reason of 20 characters: every status
NextSeq ==
    \/ \E status \in ReviewStatus :
          SubmitReviewWithin(MaxSeqRecords, 1, 1, status, "DIRECTOR", MinReasonLen, "key_director")
    \/ HandlerStep(1)
    \/ Tick

SpecSeq == Init /\ [][NextSeq]_vars

\* C33: every record of the ledger has status APPROVED, REJECTED or
\* OVERRIDDEN, and a project has at most two records: at most one APPROVED or
\* REJECTED record, and after it at most one OVERRIDDEN record
C33_AtMostTwoRecords ==
    /\ \A i \in DOMAIN ledger : ledger[i].status \in {"APPROVED", "REJECTED", "OVERRIDDEN"}
    /\ \A project_id \in Projects :
          LET mine == SelectSeq(ledger, LAMBDA r : r.project_id = project_id)
          IN  /\ Len(mine) <= 2
              /\ Len(mine) = 2 =>
                    mine[1].status \in {"APPROVED", "REJECTED"} /\ mine[2].status = "OVERRIDDEN"


----------------------------------------------------------------------------
(* Properties of the stored record *)

\* C34: the one change ever made to a stored record is the backfill of its
\* trace reference: a step changes at most one stored record, and of that
\* record only review_trace_path; a step that appends changes no stored
\* record, and no step removes one
C34_OnlyTraceBackfilled ==
    [][/\ Len(ledger') >= Len(ledger)
       /\ \A i \in DOMAIN ledger :
             ledger'[i] # ledger[i] =>
                /\ ledger'[i] = [ledger[i] EXCEPT !.review_trace_path = ledger'[i].review_trace_path]
                /\ Len(ledger') = Len(ledger)
                /\ \A j \in DOMAIN ledger : j # i => ledger'[j] = ledger[j]]_vars

\* two stored records, the trace reference of the second one backfilled and
\* that of the first one not
C34_Witness ==
    /\ Len(ledger) = 2
    /\ ledger[1].review_trace_path = 0
    /\ ledger[2].review_trace_path # 0
    /\ ledger[1].review_id # ledger[2].review_id


----------------------------------------------------------------------------
(* Properties of the rounding of the form lines *)

\* num/den cents rounded to the cent, an exact half cent going up
RoundHalfUp(num, den) == (2 * num + den) \div (2 * den)

\* C35: every line of a returned document that is computed by a
\* multiplication or a division is rounded to the cent with an exact half
\* cent going up, line by line: the qualified contract research, line_30 and
\* line_32, the later ones computed from the rounded earlier ones
C35_RoundHalfUp ==
    (formDoc.calls >= 1 /\ formDoc.error = None) =>
        LET i == formDoc.inputs
            l == formDoc.lines
        IN  /\ l.line_27 = RoundHalfUp(i.qre_contract_research_gross * ContractPct, 100)
            /\ i.prior_3_year_qre_total \in {NoAmount, 0} =>
                  l.line_32 = RoundHalfUp(6 * l.line_28, 100)
            /\ i.prior_3_year_qre_total > 0 =>
                  /\ l.line_30 = RoundHalfUp(i.prior_3_year_qre_total, 6)
                  /\ l.line_32 = RoundHalfUp(14 * l.line_31, 100)


----------------------------------------------------------------------------
(* Properties of write_trace *)

\* envelopes that are written and verify
PlainEnvelopes ==
    {envelope \in Envelopes :
        envelope.checksum_sha256 = NoChecksum /\ envelope.scores = {}}

NextWrite ==
    \/ \E envelope \in PlainEnvelopes, filename \in ForcedNames \cup {NoPath},
          names \in GeneratedNames, dump_fails \in BOOLEAN :
            WriteTraceCall(envelope, filename, names, dump_fails)
    \/ \E path \in TracePaths : VerifyTrace(path)

SpecWrite == Init /\ [][NextWrite]_vars

\* C36: write_trace never overwrites or removes a stored file.  It returns
\* the path of a new file only for a name that was free; with a generated
\* name it retries on each name that is taken, at most 5 attempts in all,
\* and fails with the collision error when all 5 are taken; with a forced
\* filename that exists it fails on the first attempt; and when writing the
\* content fails the directory is as it was before the call
C36_NeverOverwrites ==
    [][(traceRet'.op = "write_trace" /\ traceRet' # traceRet) =>
        LET r == traceRet'
            taken(k) == Exists(trace_files, AttemptPath(r.filename, r.names, k))
        IN  /\ trace_files \subseteq trace_files'
            /\ r.attempts \in 1..MaxAttempts
            /\ \A k \in 1..(r.attempts - 1) : taken(k)
            /\ r.filename # NoPath => r.attempts = 1
            /\ r.status \in {"written", "FileExistsError", "WriteError"}
            /\ r.status = "written" =>
                  /\ ~taken(r.attempts)
                  /\ r.path = AttemptPath(r.filename, r.names, r.attempts)
                  /\ Exists(trace_files', r.path)
                  /\ Cardinality(trace_files') = Cardinality(trace_files) + 1
                  /\ verify(trace_files', r.path)
            /\ r.status = "FileExistsError" =>
                  /\ trace_files' = trace_files
                  /\ taken(r.attempts)
                  /\ r.filename = NoPath => r.attempts = MaxAttempts
            /\ r.status = "WriteError" =>
                  /\ trace_files' = trace_files
                  /\ ~taken(r.attempts)]_vars

\* a call with generated names found the first name taken and wrote the
\* file under the second one
C36_Witness ==
    /\ traceRet.op = "write_trace"
    /\ traceRet.status = "written"
    /\ traceRet.filename = NoPath
    /\ traceRet.attempts = 2
    /\ traceRet.names[1] # traceRet.path
    /\ Exists(trace_files, traceRet.names[1])
    /\ Exists(trace_files, traceRet.path)


----------------------------------------------------------------------------
(* Properties of the timestamps of the ledger *)

\* the timestamps of the records of a project never decrease in the order
\* the records were appended
TimestampsMonotone ==
    \A i \in DOMAIN ledger : \A j \in DOMAIN ledger :
        (i < j /\ ledger[i].project_id = ledger[j].project_id)
            => ledger[i].timestamp <= ledger[j].timestamp

\* C37: within a project a record appended after another never has an
\* earlier timestamp, and the latest record by timestamp, the one
\* get_latest_review returns, is the record appended last
C37_TimestampsMonotone ==
    /\ TimestampsMonotone
    /\ \A project_id \in Projects :
          LET mine == RowsOf(ledger, project_id)
          IN  mine # {} =>
                get_latest_review(ledger, project_id)
                    = ledger[CHOOSE i \in mine : \A j \in mine : j <= i]


----------------------------------------------------------------------------
(* Properties of the size of the review queue *)

\* the projects whose latest record has a status in the requested set
QualifyingProjects(statuses) ==
    {project_id \in Projects :
        /\ RowsOf(ledger, project_id) # {}
        /\ CurrentStatus(project_id) \in statuses}

\* C38: a call of get_review_queue returns its list, with at most limit
\* entries, no project twice, and exactly min(limit, number of qualifying
\* projects) entries
C38_QueueLimitCountsEntities ==
    [][queue' # queue =>
        LET entries == queue'.entries
            qualifying == Cardinality(QualifyingProjects(queue'.statuses))
        IN  /\ queue'.error = None
            /\ Len(entries) <= queue'.limit
            /\ \A i, j \in DOMAIN entries :
                  i # j => entries[i].project_id # entries[j].project_id
            /\ Len(entries) = (IF queue'.limit < qualifying THEN queue'.limit
                               ELSE qualifying)]_vars


----------------------------------------------------------------------------
(* Properties of the locks of different tax years *)

\* the rows of the table for a tax year, in insertion order
LocksOf(rows, tax_year) == SelectSeq(rows, LAMBDA r : r.tax_year = tax_year)

\* C39: locks of different tax years are independent: a lock_form_version
\* that commits for one tax year leaves every form_locks row of every other
\* tax year as it was, active lock included, and no other step changes a row
C39_CohortsIndependent ==
    [][\A tax_year \in TaxYears :
          LocksOf(form_locks', tax_year) # LocksOf(form_locks, tax_year) =>
              \E p \in Procs : Commits(p) /\ lreq[p].tax_year = tax_year]_vars

\* a lock of 2024 has been committed while 2025 had an active lock, which is
\* still the active lock of 2025
C39_Witness ==
    /\ Len(form_locks) = 2
    /\ form_locks[1].tax_year = 2025 /\ form_locks[1].is_active
    /\ form_locks[2].tax_year = 2024 /\ form_locks[2].is_active
    /\ get_active_form_lock(form_locks, 2025) = form_locks[1]
    /\ \E p \in Procs : lpc[p] = "done" /\ lres[p] = "locked"

====
